---- MODULE Spec2Model ----
(***************************************************************************)
(* Model of the agentic tool-use loop of jn-66-discord-bot:                *)
(*   - LLMCog.on_message          (src/cogs/llm_cog.py)                    *)
(*   - run_agentic_loop           (src/docker/agent.py)                    *)
(*   - the sandbox execute_code   (src/docker/app.py)                      *)
(* Texts are sequences of strings (single characters where the code looks  *)
(* at characters, longer tokens elsewhere), so that the string operations  *)
(* of the code (in, split, strip, formatting) are computed, not assumed.   *)
(***************************************************************************)
EXTENDS Integers, Sequences, FiniteSets, TLC

VARIABLES
    impl,                   \* which orchestrator runs: "cog" (llm_cog.py) | "cli" (agent.py)
    conversation_history,   \* the persistent dialogue: Seq of [role, content, turn]
    db,                     \* DatabaseManager.store_message log (cog only)
    pc,                     \* per user turn: the call the handler is waiting on
    assistant_response,     \* per turn: text returned by the conversation model
    generated_code,         \* per turn: the source to execute next
    execution_result,       \* per turn: outcome of the last sandbox execution
    loop_i,                 \* per turn: the loop variable i of the correction loop
    thinking_message,       \* per turn: what the user currently sees for this turn
    calls,                  \* per turn: the model/sandbox calls issued so far, with arguments
    final_message,          \* per turn: text returned by the summarizing call
    exc,                    \* per turn: text of the exception being handled (<<>> if none)
    faults,                 \* number of exceptions raised so far by collaborators
    sandbox_globals,        \* sandbox: the module namespace handed to exec, name -> value
    sandbox_figure,         \* sandbox: pyplot's state, [open, drawn]
    served,                 \* sandbox: the requests served so far, with their responses
    sys_stdout,             \* sandbox: the buffer sys.stdout points to (0: the process's own stream)
    sys_stderr,             \* sandbox: the buffer sys.stderr points to (0: the process's own stream)
    stdout_buffers,         \* sandbox: text written to each stdout target
    stderr_buffers,         \* sandbox: text written to each stderr target
    workers,                \* sandbox: per server thread, the request it serves and its position
    fn_pc,      \* position of the pure-function harness: "ready" | "applied"
    fn_arg,     \* the text handed to the function under check
    fn_res,     \* its result
    task_agent,     \* Agent.process_task: its position, messages list, calls and result
    tasks_table,    \* the tasks table of the database: task_id -> record
    edit_reply,     \* what the edit command last sent back
    scheduler       \* Scheduler: its _jobs with the state of each job's loop

fn_vars == <<fn_pc, fn_arg, fn_res>>

service_vars == <<task_agent, tasks_table, edit_reply, scheduler>>

server_vars == <<sys_stdout, sys_stderr, stdout_buffers, stderr_buffers, workers>>

sandbox_vars == <<sandbox_globals, sandbox_figure, served,
                  sys_stdout, sys_stderr, stdout_buffers, stderr_buffers, workers>>

loop_vars == <<impl, conversation_history, db, pc, assistant_response, generated_code,
               execution_result, loop_i, thinking_message, calls, final_message, exc, faults>>

vars == <<impl, conversation_history, db, pc, assistant_response, generated_code,
          execution_result, loop_i, thinking_message, calls, final_message, exc, faults,
          sandbox_globals, sandbox_figure, served,
          sys_stdout, sys_stderr, stdout_buffers, stderr_buffers, workers,
          fn_pc, fn_arg, fn_res,
          task_agent, tasks_table, edit_reply, scheduler>>

\* the task agent, the tasks table and the scheduler when they are not in use
ServicesIdle ==
    /\ task_agent = [pc |-> "off"]
    /\ tasks_table = <<>>
    /\ edit_reply = ""
    /\ scheduler = [pc |-> "off"]

(***************************************************************************)
(* Bounds                                                                  *)
(***************************************************************************)
\* number of pieces an enumerated assistant text is built from
MaxPieces == 4

\* number of user messages that arrive
MaxTurns == 2

\* number of requests the sandbox serves
MaxRequests == 3

\* number of server threads of the sandbox, each serving one request
MaxWorkers == 2

\* number of exceptions the collaborators (Discord, storage, models) raise in one run
MaxFaults == 2

Turns == 1..MaxTurns

(***************************************************************************)
(* Text primitives (Python str semantics)                                  *)
(***************************************************************************)
\* the literal "[TOOL_USE]"
Marker == <<"[", "T", "O", "O", "L", "_", "U", "S", "E", "]">>

\* characters removed by str.strip() with no argument
Whitespace == {" ", "\n"}

\* str.find: index (1-based) of the first occurrence of sep in s, 0 if none
find(s, sep) ==
    LET hits == {i \in 1..(Len(s) - Len(sep) + 1) : SubSeq(s, i, i + Len(sep) - 1) = sep}
    IN  IF hits = {} THEN 0 ELSE CHOOSE i \in hits : \A j \in hits : i <= j

\* the `in` operator on strings
contains(s, sep) == find(s, sep) # 0

\* str.split(sep): left-to-right, non-overlapping; always at least one segment
RECURSIVE split(_, _)
split(s, sep) ==
    LET i == find(s, sep)
    IN  IF i = 0 THEN <<s>>
        ELSE <<SubSeq(s, 1, i - 1)>> \o split(SubSeq(s, i + Len(sep), Len(s)), sep)

\* str.lstrip()
RECURSIVE lstrip(_)
lstrip(s) == IF s # <<>> /\ Head(s) \in Whitespace THEN lstrip(Tail(s)) ELSE s

\* str.rstrip()
RECURSIVE rstrip(_)
rstrip(s) ==
    IF s # <<>> /\ s[Len(s)] \in Whitespace THEN rstrip(SubSeq(s, 1, Len(s) - 1)) ELSE s

\* str.strip()
strip(s) == rstrip(lstrip(s))

\* code_prompt = assistant_response.split("[TOOL_USE]")[-1].strip()
code_prompt(text) ==
    LET parts == split(text, Marker) IN strip(parts[Len(parts)])

(***************************************************************************)
(* Code Extractor                                                          *)
(***************************************************************************)
\* the token standing for the three backticks that open and close a fenced block
Fence == "<fence>"

\* number of whitespace tokens at positions q, q+1, ...
RECURSIVE wsrun(_, _)
wsrun(text, q) ==
    IF q <= Len(text) /\ text[q] \in Whitespace THEN 1 + wsrun(text, q + 1) ELSE 0

\* the tail \s*``` of both patterns matches at position e
closes(text, e) ==
    LET b == wsrun(text, e) IN e + b <= Len(text) /\ text[e + b] = Fence

\* \s*([\s\S]+?)\s*``` from position q: greedy \s*, lazy group of at least one token
group_at(text, q) ==
    LET A == {a \in 0..wsrun(text, q) :
                 \E g \in 1..(Len(text) - (q + a) + 1) : closes(text, q + a + g)}
    IN  IF A = {} THEN [found |-> FALSE, group |-> <<>>]
        ELSE LET a == CHOOSE x \in A : \A y \in A : y <= x
                 s == q + a
                 G == {g \in 1..(Len(text) - s + 1) : closes(text, s + g)}
                 g == CHOOSE x \in G : \A y \in G : x <= y
             IN  [found |-> TRUE, group |-> SubSeq(text, s, s + g - 1)]

\* re.search(pattern, text): the leftmost position where the pattern matches;
\* tagged selects ```python as the opening, otherwise ```
search(text, tagged) ==
    LET opens(p) == /\ text[p] = Fence
                    /\ tagged => (p + 1 <= Len(text) /\ text[p + 1] = "python")
        after(p) == IF tagged THEN p + 2 ELSE p + 1
        P == {p \in 1..Len(text) : opens(p) /\ group_at(text, after(p)).found}
    IN  IF P = {} THEN [found |-> FALSE, group |-> <<>>]
        ELSE group_at(text, after(CHOOSE p \in P : \A r \in P : p <= r))

extract_python_code(text) ==
    IF search(text, TRUE).found THEN strip(search(text, TRUE).group)
    ELSE IF search(text, FALSE).found THEN strip(search(text, FALSE).group)
    ELSE strip(text)

(***************************************************************************)
(* Values exchanged with the collaborators                                 *)
(***************************************************************************)
\* max_retries = 2
max_retries == 2

\* message.content of the t-th incoming message
Question(t) == <<"question ", ToString(t)>>

\* what the conversation model may answer (the empty text included)
PolicyTexts ==
    { <<>>,
      <<"Hello there.">>,
      <<"I will compute it. ">> \o Marker \o <<" ", "Compute 2+2">>,
      <<"plan ">> \o Marker \o <<" first ">> \o Marker \o <<" second">> }

\* what the code model may answer
CoderTexts ==
    { <<"Here: ", Fence, "python", "\n", "print(2+2)", "\n", Fence>>,
      <<"print(undefined_name)">> }

\* what the conversation model may answer when asked to summarize
FinalTexts == { <<"The answer is 4.">> }

\* what the HTTP call to the sandbox may produce: a 200 body, a timeout, a
\* refused connection, or a response with an error status (stderr then stands
\* for the text of the exception)
SandboxReplies ==
    { [status |-> "200", stdout |-> <<"4\n">>, stderr |-> <<>>, image_b64 |-> "null"],
      [status |-> "200", stdout |-> <<"before\n">>,
       stderr |-> <<"NameError: undefined_name">>, image_b64 |-> "null"],
      [status |-> "Timeout", stdout |-> <<>>, stderr |-> <<"Read timed out.">>,
       image_b64 |-> "null"],
      [status |-> "ConnectionError", stdout |-> <<>>, stderr |-> <<"Connection refused">>,
       image_b64 |-> "null"],
      [status |-> "500", stdout |-> <<"partial\n">>,
       stderr |-> <<"500 Server Error: INTERNAL SERVER ERROR">>, image_b64 |-> "png"] }

\* mutant: the status of the response is not looked at
raises_RequestException_transport_only(reply) ==
    reply.status \in {"Timeout", "ConnectionError"}

\* requests.post raises (Timeout, ConnectionError) or raise_for_status does
\* (HTTPError); all derive from RequestException
raises_RequestException(reply) == reply.status # "200"

\* execution_result before the loop assigns it
Unassigned == [stdout |-> <<>>, stderr |-> <<>>, image_b64 |-> "unassigned"]

\* LLMCog._execute_code_in_sandbox: the JSON body, or the synthetic failure outcome
execute_code_in_sandbox(reply) ==
    IF ~raises_RequestException(reply)
    THEN [stdout |-> reply.stdout, stderr |-> reply.stderr, image_b64 |-> reply.image_b64]
    ELSE [stdout |-> <<>>,
          stderr |-> <<"API Error: Could not connect to the sandbox.\n">> \o reply.stderr,
          image_b64 |-> "null"]

\* mutant: an execution that produced nothing counts as a failure
succeeded_with_output(result) ==
    result.stderr = <<>> /\ (result.stdout # <<>> \/ result.image_b64 # "null")

\* mutant: success is read off stdout
succeeded_by_stdout(result) == result.stdout # <<>>

\* `if not execution_result['stderr']`
succeeded(result) == result.stderr = <<>>

\* mutant: one correction too many
should_correct_off_by_one(i) == i < max_retries

\* mutant: never corrects
should_correct_never(i) == FALSE

\* `if i < max_retries - 1`
should_correct(i) == i < max_retries - 1

\* mutant: the loop has one more iteration
in_range_one_more(i) == i <= max_retries

\* `for i in range(max_retries)`: is there an iteration with this index
in_range(i) == i < max_retries

\* mutant: the tool turn repeats stdout under the STDERR header
tool_output_stdout_twice(result) ==
    <<"[TOOL_RESULT]\nSTDOUT:\n">> \o result.stdout \o <<"\nSTDERR:\n">> \o result.stdout

\* tool_output = f"[TOOL_RESULT]\nSTDOUT:\n{stdout}\nSTDERR:\n{stderr}"
tool_output(result) ==
    <<"[TOOL_RESULT]\nSTDOUT:\n">> \o result.stdout \o <<"\nSTDERR:\n">> \o result.stderr

\* mutant: the coder is sent the whole assistant text
generation_prompt_whole_text(assistant_text) ==
    <<"Generate only the Python code for this prompt, without any explanation: ">>
        \o assistant_text

\* the first coder prompt
generation_prompt(assistant_text) ==
    <<"Generate only the Python code for this prompt, without any explanation: ">>
        \o code_prompt(assistant_text)

\* mutant: the prompt carries what the code printed instead of its error
correction_prompt_with_stdout(code, result) ==
    <<"The following Python code failed with an error. Please fix it and provide only the complete, corrected script.\n\nCODE:\n">>
        \o code \o <<"\n\nERROR:\n">> \o result.stdout

\* correction_prompt
correction_prompt(code, result) ==
    <<"The following Python code failed with an error. Please fix it and provide only the complete, corrected script.\n\nCODE:\n">>
        \o code \o <<"\n\nERROR:\n">> \o result.stderr

\* summarizer_prompt
summarizer_prompt(question, output) ==
    <<"A user has prompted you ... [ORIGINAL_QUESTION]">> \o question \o <<"\n">>
        \o output \o <<"\n">>

\* error_message
error_message(e) == <<"Sorry, a critical error occurred in the agentic loop: ">> \o e

\* mutant: the final message quotes the error output of the execution
final_content_with_stderr(final, result) == final \o result.stderr

\* thinking_message.edit(content=final_message, ...)
final_content(final, result) == final

\* mutant: the tool path is taken only when the text starts with the marker
uses_tool_prefix_only(assistant_text) ==
    Len(assistant_text) >= Len(Marker) /\ SubSeq(assistant_text, 1, Len(Marker)) = Marker

\* `"[TOOL_USE]" in assistant_response`
uses_tool(assistant_text) == contains(assistant_text, Marker)

\* mutant: the tool output is appended under the assistant role
Turn_tool_as_assistant(role, content, t) ==
    [role |-> IF role = "tool" THEN "assistant" ELSE role, content |-> content, turn |-> t]

Turn(role, content, t) == [role |-> role, content |-> content, turn |-> t]

\* the system turn appended by _initialize_history
SystemTurn == Turn("system", <<"system prompt">>, 0)

\* mutant: the history is cleared and the system prompt is not put back
initialize_history_cleared_only == <<>>

\* _initialize_history: clear(), then append the system prompt (agent.py builds
\* the same one-element list before its main loop)
initialize_history == <<SystemTurn>>

\* a single-message list, as passed to ollama.chat
UserMessage(content) == <<[role |-> "user", content |-> content]>>

\* the role/content pairs of a dialogue, as the model sees them
Messages(history) ==
    [k \in 1..Len(history) |-> [role |-> history[k].role, content |-> history[k].content]]

NoCalls ==
    [policy |-> <<>>, gen |-> <<>>, exec |-> <<>>, replies |-> <<>>, results |-> <<>>,
     synth |-> <<>>]

NotSent == [sent |-> FALSE, content |-> <<>>]

Shown(content) == [sent |-> TRUE, content |-> content]

\* the state after construction of the cog / start of the CLI
LoopInit ==
    /\ conversation_history = initialize_history
    /\ db = <<>>
    /\ pc = [t \in Turns |-> "idle"]
    /\ assistant_response = [t \in Turns |-> <<>>]
    /\ generated_code = [t \in Turns |-> <<>>]
    /\ execution_result = [t \in Turns |-> Unassigned]
    /\ loop_i = [t \in Turns |-> -1]
    /\ thinking_message = [t \in Turns |-> NotSent]
    /\ calls = [t \in Turns |-> NoCalls]
    /\ final_message = [t \in Turns |-> <<>>]
    /\ exc = [t \in Turns |-> <<>>]
    /\ faults = 0

\* the orchestrator is not part of a pure-function harness
LoopIdle == impl = "none" /\ LoopInit

\* no pure-function harness runs
FnIdle == fn_pc = "off" /\ fn_arg = <<>> /\ fn_res = <<>>

(***************************************************************************)
(* LLMCog.on_message (src/cogs/llm_cog.py).  The listener is a coroutine:   *)
(* discord.py runs one task per message, and a task gives up control at    *)
(* every await.  Each action below resumes the task of turn t at the await  *)
(* it is suspended on and runs it to its next await.  f names the           *)
(* collaborator that raises in that stretch ("none": nothing raises).      *)
(***************************************************************************)
authorized_user_id == "owner"

command_prefix == "!"

\* the messages Discord may deliver as the t-th one
Incoming(t) ==
    { [author_bot |-> FALSE, is_dm |-> TRUE, author_id |-> authorized_user_id,
       content |-> Question(t)],
      [author_bot |-> TRUE, is_dm |-> TRUE, author_id |-> "bot", content |-> Question(t)],
      [author_bot |-> FALSE, is_dm |-> FALSE, author_id |-> authorized_user_id,
       content |-> Question(t)],
      [author_bot |-> FALSE, is_dm |-> TRUE, author_id |-> "stranger",
       content |-> Question(t)],
      [author_bot |-> FALSE, is_dm |-> TRUE, author_id |-> authorized_user_id,
       content |-> <<command_prefix, "history">>] }

\* mutant: the guard does not look at the command prefix
admitted_commands_too(m) ==
    ~ ( \/ m.author_bot
        \/ ~m.is_dm
        \/ m.author_id # authorized_user_id )

\* the negation of the guard that opens on_message
admitted(m) ==
    ~ ( \/ m.author_bot
        \/ ~m.is_dm
        \/ m.author_id # authorized_user_id
        \/ (m.content # <<>> /\ m.content[1] = command_prefix) )

\* the content of the status message after a progress edit
Status(status) == Shown(<<status>>)

\* The try block and its except clause.  f names the collaborator that raises
\* inside the try block ("none": nothing raises); handler_fails says that the
\* edit awaited in the except clause raises too, so the exception leaves
\* on_message.  Without an exception the task waits at okPc.  caught counts the
\* exceptions raised and caught below the try block (in the sandbox client).
TryExcept(t, f, handler_fails, caught, okPc) ==
    LET cost == (IF f = "none" THEN 0 ELSE 1) + (IF handler_fails THEN 1 ELSE 0) + caught
    IN
    /\ handler_fails => f # "none"
    /\ faults + cost <= MaxFaults
    /\ faults' = faults + cost
    /\ exc' = [exc EXCEPT ![t] = IF f = "none" THEN @ ELSE <<f, " failed">>]
    /\ pc' = [pc EXCEPT ![t] = IF f = "none" THEN okPc
                               ELSE IF handler_fails THEN "escaped" ELSE "done"]

\* what the message of turn t shows after the stretch: ok if nothing raised,
\* error_message if the except clause delivered it, else what was shown last
Visible(f, handler_fails, ok, last) ==
    IF f = "none" THEN ok
    ELSE IF handler_fails THEN last
    ELSE Shown(error_message(<<f, " failed">>))

\* what the loop does after an execution with index i returned result:
\* break, correct (then iterate), iterate without correcting, or leave the loop
after_execution(result, i) ==
    IF succeeded(result) THEN "summarize"
    ELSE IF should_correct(i) THEN "correct"
    ELSE IF in_range(i + 1) THEN "iterate"
    ELSE "summarize"

\* a message arrives: the guard, "Thinking...", the user turn is appended and
\* stored, and the policy call is issued
on_message_event(t, m) ==
    /\ impl = "cog"
    /\ pc[t] = "idle"
    /\ \A u \in Turns : u < t => pc[u] # "idle"
    /\ \E f \in {"none", "send", "store"}, handler_fails \in BOOLEAN :
          LET history1 == Append(conversation_history, Turn("user", m.content, t)) IN
          IF ~admitted(m)
          THEN /\ f = "none" /\ ~handler_fails
               /\ pc' = [pc EXCEPT ![t] = "ignored"]
               /\ UNCHANGED <<conversation_history, db, thinking_message, calls, exc, faults>>
          ELSE IF f = "send"
          \* channel.send is awaited before the try block: its exception escapes
          THEN /\ ~handler_fails /\ faults < MaxFaults
               /\ faults' = faults + 1
               /\ exc' = [exc EXCEPT ![t] = <<f, " failed">>]
               /\ pc' = [pc EXCEPT ![t] = "escaped"]
               /\ UNCHANGED <<conversation_history, db, thinking_message, calls>>
          ELSE /\ TryExcept(t, f, handler_fails, 0, "policy")
               /\ thinking_message' =
                     [thinking_message EXCEPT ![t] =
                         Visible(f, handler_fails, Status("Thinking..."),
                                 Status("Thinking..."))]
               /\ conversation_history' = history1
               /\ db' = IF f = "none"
                        THEN Append(db, [author |-> "username", message |-> m.content])
                        ELSE db
               /\ calls' = IF f = "none"
                           THEN [calls EXCEPT ![t].policy = Append(@, history1)]
                           ELSE calls
    /\ UNCHANGED <<impl, assistant_response, generated_code, execution_result, loop_i,
                   final_message, fn_vars, sandbox_vars, service_vars>>

on_message(t) == \E m \in Incoming(t) : on_message_event(t, m)

\* the policy call returns: the decision step; without the marker the answer is
\* appended, stored and shown; with it the first code-generation call is issued
on_message_policy_returned(t) ==
    /\ impl = "cog"
    /\ pc[t] = "policy"
    /\ \E f \in {"none", "policy", "store", "edit"}, handler_fails \in BOOLEAN,
          resp \in PolicyTexts :
          LET tool == uses_tool(resp)
              returned == f # "policy"
          IN
          /\ (f = "store") => ~tool
          /\ TryExcept(t, f, handler_fails, 0, IF tool THEN "gen" ELSE "done")
          /\ assistant_response' =
                [assistant_response EXCEPT ![t] = IF returned THEN resp ELSE @]
          /\ conversation_history' =
                IF returned /\ ~tool
                THEN Append(conversation_history, Turn("assistant", resp, t))
                ELSE conversation_history
          /\ db' = IF ~tool /\ f \in {"none", "edit"}
                   THEN Append(db, [author |-> "botname", message |-> resp])
                   ELSE db
          /\ thinking_message' =
                [thinking_message EXCEPT ![t] =
                    Visible(f, handler_fails,
                            IF tool THEN Status("Decision: Use Code Execution Tool")
                            ELSE Shown(resp),
                            @)]
          /\ calls' = IF f = "none" /\ tool
                      THEN [calls EXCEPT ![t].gen =
                               Append(@, UserMessage(generation_prompt(resp)))]
                      ELSE calls
    /\ UNCHANGED <<impl, generated_code, execution_result, loop_i, final_message, fn_vars, sandbox_vars, service_vars>>

\* After the loop (step 3 of the tool path): "Summarizing", the assistant and
\* tool turns are appended, and the summarizing call is issued with a fresh
\* single-message prompt.  started is false when an exception came first.
Summarize(t, started, result, calls0) ==
    LET output == tool_output(result) IN
    /\ conversation_history' =
          IF started
          THEN conversation_history \o << Turn("assistant", assistant_response[t], t),
                                          Turn("tool", output, t) >>
          ELSE conversation_history
    /\ calls' = IF started
                THEN [calls0 EXCEPT ![t].synth =
                         Append(@, UserMessage(summarizer_prompt(Question(t), output)))]
                ELSE calls0

\* a code-generation call returns: the code is extracted and the loop goes to
\* its next iteration (the first one after the initial generation): "Attempt
\* i+1" is shown and the code is sent to the sandbox
on_message_code_generated(t) ==
    /\ impl = "cog"
    /\ pc[t] = "gen"
    /\ \E f \in {"none", "gen", "edit"}, handler_fails \in BOOLEAN, resp \in CoderTexts :
          LET code == extract_python_code(resp)
              again == in_range(loop_i[t] + 1)
              \* leaving the loop with execution_result never assigned raises
              unbound == ~again /\ execution_result[t] = Unassigned
              g == IF f = "none" /\ unbound THEN "UnboundLocalError" ELSE f
          IN
          /\ TryExcept(t, g, handler_fails, 0, IF again THEN "exec" ELSE "synth")
          /\ generated_code' = [generated_code EXCEPT ![t] = IF f = "gen" THEN @ ELSE code]
          /\ loop_i' = [loop_i EXCEPT ![t] = IF f # "gen" /\ again THEN @ + 1 ELSE @]
          /\ thinking_message' =
                [thinking_message EXCEPT ![t] =
                    Visible(g, handler_fails,
                            IF again THEN Shown(<<"Attempt ", ToString(loop_i[t] + 2)>>)
                            ELSE Status("Summarizing results..."),
                            IF g = "UnboundLocalError" THEN Status("Summarizing results...")
                            ELSE @)]
          /\ IF again
             THEN /\ calls' = IF f = "none"
                              THEN [calls EXCEPT ![t].exec = Append(@, code)]
                              ELSE calls
                  /\ UNCHANGED conversation_history
             ELSE Summarize(t, g = "none", execution_result[t], calls)
    /\ UNCHANGED <<impl, db, assistant_response, execution_result, final_message, fn_vars, sandbox_vars, service_vars>>

\* the sandbox call returns: success check and retry decision, then either the
\* correction call, the next execution, or the summarizing call is issued
on_message_executed(t) ==
    /\ impl = "cog"
    /\ pc[t] = "exec"
    /\ \E f \in {"none", "exec", "edit"}, handler_fails \in BOOLEAN,
          reply \in SandboxReplies :
          LET result == execute_code_in_sandbox(reply)
              todo == after_execution(result, loop_i[t])
              returned == f # "exec"
              ok == f = "none"
          IN
          /\ f = "exec" => reply.status = "200"
          /\ TryExcept(t, f, handler_fails,
                       IF raises_RequestException(reply) THEN 1 ELSE 0,
                       CASE todo = "summarize" -> "synth"
                         [] todo = "correct" -> "gen"
                         [] OTHER -> "exec")
          /\ execution_result' =
                [execution_result EXCEPT ![t] = IF returned THEN result ELSE @]
          /\ loop_i' = [loop_i EXCEPT ![t] = IF returned /\ todo = "iterate"
                                             THEN @ + 1 ELSE @]
          /\ thinking_message' =
                [thinking_message EXCEPT ![t] =
                    Visible(f, handler_fails,
                            CASE todo = "summarize" -> Status("Summarizing results...")
                              [] todo = "correct" -> Status("Code failed. Attempting to fix")
                              [] OTHER -> Shown(<<"Attempt ", ToString(loop_i[t] + 2)>>),
                            @)]
          /\ IF todo = "summarize"
             THEN /\ Summarize(t, ok, result,
                               IF returned
                               THEN [calls EXCEPT ![t].results = Append(@, result),
                                                  ![t].replies = Append(@, reply.status)]
                               ELSE calls)
                  /\ UNCHANGED generated_code
             ELSE /\ calls' =
                        [calls EXCEPT
                            ![t].results = IF returned THEN Append(@, result) ELSE @,
                            ![t].replies = IF returned THEN Append(@, reply.status) ELSE @,
                            ![t].gen =
                                IF ok /\ todo = "correct"
                                THEN Append(@, UserMessage(correction_prompt(
                                                              generated_code[t], result)))
                                ELSE @,
                            ![t].exec = IF ok /\ todo = "iterate"
                                        THEN Append(@, generated_code[t]) ELSE @]
                  /\ UNCHANGED <<conversation_history, generated_code>>
    /\ UNCHANGED <<impl, db, assistant_response, final_message, fn_vars, sandbox_vars, service_vars>>

\* the summarizing call returns: the final assistant turn is appended and
\* stored, and the answer replaces the status message
on_message_summarized(t) ==
    /\ impl = "cog"
    /\ pc[t] = "synth"
    /\ \E f \in {"none", "synth", "store", "edit"}, handler_fails \in BOOLEAN,
          final \in FinalTexts :
          LET returned == f # "synth" IN
          /\ TryExcept(t, f, handler_fails, 0, "done")
          /\ final_message' = [final_message EXCEPT ![t] = IF returned THEN final ELSE @]
          /\ conversation_history' =
                IF returned
                THEN Append(conversation_history, Turn("assistant", final, t))
                ELSE conversation_history
          /\ db' = IF f \in {"none", "edit"}
                   THEN Append(db, [author |-> "botname",
                                    message |-> <<"[Agent Output]\n">> \o final])
                   ELSE db
          /\ thinking_message' =
                [thinking_message EXCEPT ![t] =
                    Visible(f, handler_fails,
                            Shown(final_content(final, execution_result[t])), @)]
    /\ UNCHANGED <<impl, assistant_response, generated_code, execution_result, loop_i,
                   calls, fn_vars, sandbox_vars, service_vars>>

(***************************************************************************)
(* run_agentic_loop (src/docker/agent.py).  The CLI is synchronous: the    *)
(* main loop calls run_agentic_loop for one input at a time, and nothing    *)
(* catches an exception other than KeyboardInterrupt, so an exception ends  *)
(* the process.  Each action runs the function up to its next blocking call.*)
(***************************************************************************)
\* execute_code_in_sandbox of agent.py
cli_execute_code_in_sandbox(reply) ==
    IF ~raises_RequestException(reply)
    THEN [stdout |-> reply.stdout, stderr |-> reply.stderr, image_b64 |-> reply.image_b64]
    ELSE [stdout |-> <<>>, stderr |-> <<"API Error: ">> \o reply.stderr,
          image_b64 |-> "null"]

\* tool_output of agent.py
cli_tool_output(result) ==
    <<"\n        [TOOL_RESULT]\n        STDOUT:\n        ">> \o result.stdout
        \o <<"\n        STDERR:\n        ">> \o result.stderr \o <<"\n        ">>

\* correction_prompt of agent.py
cli_correction_prompt(code, result) ==
    <<"The following Python code failed:\n--- CODE START ---\n">> \o code
        \o <<"\n--- CODE END ---\nIt produced this error:\n--- ERROR START ---\n">>
        \o result.stderr
        \o <<"\n--- ERROR END ---\nPlease fix the code and provide only the complete, corrected Python script.">>

\* an exception in run_agentic_loop propagates out of it and out of the main loop
Escapes(t, f, okPc) ==
    /\ f # "none" => faults < MaxFaults
    /\ faults' = IF f = "none" THEN faults ELSE faults + 1
    /\ exc' = [exc EXCEPT ![t] = IF f = "none" THEN @ ELSE <<f, " failed">>]
    /\ pc' = [pc EXCEPT ![t] = IF f = "none" THEN okPc ELSE "escaped"]

\* the main loop hands the next input to run_agentic_loop
run_agentic_loop(t) ==
    /\ impl = "cli"
    /\ pc[t] = "idle"
    /\ \A u \in Turns : u < t => pc[u] = "done"
    /\ LET history1 == Append(conversation_history, Turn("user", Question(t), t)) IN
          /\ conversation_history' = history1
          /\ calls' = [calls EXCEPT ![t].policy = Append(@, history1)]
    /\ pc' = [pc EXCEPT ![t] = "policy"]
    /\ UNCHANGED <<impl, db, assistant_response, generated_code, execution_result, loop_i,
                   thinking_message, final_message, exc, faults, fn_vars, sandbox_vars, service_vars>>

\* the policy call returns: the decision, and the first code-generation call
run_agentic_loop_policy_returned(t) ==
    /\ impl = "cli"
    /\ pc[t] = "policy"
    /\ \E f \in {"none", "policy"}, resp \in PolicyTexts :
          LET tool == uses_tool(resp)
              ok == f = "none"
          IN
          /\ Escapes(t, f, IF tool THEN "gen" ELSE "done")
          /\ assistant_response' = [assistant_response EXCEPT ![t] = IF ok THEN resp ELSE @]
          /\ calls' = IF ok /\ tool
                      THEN [calls EXCEPT ![t].gen =
                               Append(@, UserMessage(generation_prompt(resp)))]
                      ELSE calls
          /\ conversation_history' =
                IF ok /\ ~tool
                THEN Append(conversation_history, Turn("assistant", resp, t))
                ELSE conversation_history
          /\ thinking_message' =
                [thinking_message EXCEPT ![t] = IF ok /\ ~tool THEN Shown(resp) ELSE @]
    /\ UNCHANGED <<impl, db, generated_code, execution_result, loop_i, final_message,
                   fn_vars, sandbox_vars, service_vars>>

\* After the loop: the assistant and tool turns are appended and the
\* summarizing call is issued with the whole conversation_history.  started is
\* false when an exception came first.
cli_Summarize(t, started, result, calls0) ==
    LET history1 == conversation_history
                       \o << Turn("assistant", assistant_response[t], t),
                             Turn("tool", cli_tool_output(result), t) >>
    IN  /\ conversation_history' = IF started THEN history1 ELSE conversation_history
        /\ calls' = IF started
                    THEN [calls0 EXCEPT ![t].synth = Append(@, Messages(history1))]
                    ELSE calls0

\* a code-generation call returns: next iteration of the loop, or its end
run_agentic_loop_code_generated(t) ==
    /\ impl = "cli"
    /\ pc[t] = "gen"
    /\ \E f \in {"none", "gen"}, resp \in CoderTexts :
          LET code == extract_python_code(resp)
              again == in_range(loop_i[t] + 1)
              \* leaving the loop with execution_result never assigned raises
              unbound == ~again /\ execution_result[t] = Unassigned
              g == IF f = "none" /\ unbound THEN "UnboundLocalError" ELSE f
          IN
          /\ Escapes(t, g, IF again THEN "exec" ELSE "synth")
          /\ generated_code' = [generated_code EXCEPT ![t] = IF f = "gen" THEN @ ELSE code]
          /\ loop_i' = [loop_i EXCEPT ![t] = IF f # "gen" /\ again THEN @ + 1 ELSE @]
          /\ IF again
             THEN /\ calls' = IF f = "none"
                              THEN [calls EXCEPT ![t].exec = Append(@, code)]
                              ELSE calls
                  /\ UNCHANGED conversation_history
             ELSE cli_Summarize(t, g = "none", execution_result[t], calls)
    /\ UNCHANGED <<impl, db, assistant_response, execution_result, thinking_message,
                   final_message, fn_vars, sandbox_vars, service_vars>>

\* the sandbox call returns: success check and retry decision, then either the
\* correction call, the next execution, or the summarizing call is issued
run_agentic_loop_executed(t) ==
    /\ impl = "cli"
    /\ pc[t] = "exec"
    /\ \E reply \in SandboxReplies :
          LET result == cli_execute_code_in_sandbox(reply)
              todo == after_execution(result, loop_i[t])
              caught == IF raises_RequestException(reply) THEN 1 ELSE 0
              logged == [calls EXCEPT ![t].results = Append(@, result),
                                      ![t].replies = Append(@, reply.status)]
          IN
          /\ faults + caught <= MaxFaults
          /\ faults' = faults + caught
          /\ execution_result' = [execution_result EXCEPT ![t] = result]
          /\ pc' = [pc EXCEPT ![t] = CASE todo = "summarize" -> "synth"
                                       [] todo = "correct" -> "gen"
                                       [] OTHER -> "exec"]
          /\ loop_i' = [loop_i EXCEPT ![t] = IF todo = "iterate" THEN @ + 1 ELSE @]
          /\ IF todo = "summarize"
             THEN cli_Summarize(t, TRUE, result, logged)
             ELSE /\ calls' =
                        [logged EXCEPT
                            ![t].gen = IF todo = "correct"
                                       THEN Append(@, UserMessage(cli_correction_prompt(
                                                                     generated_code[t], result)))
                                       ELSE @,
                            ![t].exec = IF todo = "iterate"
                                        THEN Append(@, generated_code[t]) ELSE @]
                  /\ UNCHANGED conversation_history
    /\ UNCHANGED <<impl, db, assistant_response, generated_code, thinking_message,
                   final_message, exc, fn_vars, sandbox_vars, service_vars>>

\* the summarizing call returns: the final turn is appended and printed
run_agentic_loop_summarized(t) ==
    /\ impl = "cli"
    /\ pc[t] = "synth"
    /\ \E f \in {"none", "synth"}, final \in FinalTexts :
          LET ok == f = "none" IN
          /\ Escapes(t, f, "done")
          /\ final_message' = [final_message EXCEPT ![t] = IF ok THEN final ELSE @]
          /\ conversation_history' =
                IF ok THEN Append(conversation_history, Turn("assistant", final, t))
                ELSE conversation_history
          /\ thinking_message' =
                [thinking_message EXCEPT ![t] = IF ok THEN Shown(final) ELSE @]
    /\ UNCHANGED <<impl, db, assistant_response, generated_code, execution_result, loop_i,
                   calls, fn_vars, sandbox_vars, service_vars>>

(***************************************************************************)
(* The sandbox: execute_code (src/docker/app.py).  A submitted code is a    *)
(* sequence of statements; exec(code, globals()) runs them in the module's *)
(* own namespace.                                                          *)
(***************************************************************************)
Unbound == "<unbound>"

\* the names a submitted code may use
Names == {"x"}

\* statements of a submitted code
Assign(name, value) == [op |-> "assign", name |-> name, value |-> value]
Read(name) == [op |-> "print_name", name |-> name, value |-> ""]
PrintText(value) == [op |-> "print", name |-> "", value |-> value]
Warn(value) == [op |-> "print_stderr", name |-> "", value |-> value]
Raise(value) == [op |-> "raise", name |-> "", value |-> value]
Exit == [op |-> "exit", name |-> "", value |-> "SystemExit: 1"]
Plot == [op |-> "plot", name |-> "", value |-> ""]

Statements ==
    {Assign("x", "1"), Read("x"), PrintText("hello"), Warn("UserWarning: careful"),
     Raise("ValueError: boom"), Exit, Plot}

\* the codes submitted: one or two statements
Snippets == {<<a>> : a \in Statements} \cup {<<a, b>> : a, b \in Statements}

\* the JSON bodies posted: with a code field (the empty string included),
\* without one, or empty
Requests ==
    {[fields |-> {"code"}, code |-> c] : c \in Snippets \cup {<<>>}}
        \cup {[fields |-> {"other"}, code |-> <<>>], [fields |-> {}, code |-> <<>>]}

\* exec(code, namespace) with stdout and stderr redirected: statements run in
\* order and bind into namespace; an exception ends the run.  error is the
\* exception's last traceback line, <<>> if none was raised; kind tells whether
\* the exception derives from Exception or only from BaseException.
RECURSIVE exec(_, _, _, _, _)
exec(code, namespace, figure, stdout, stderr) ==
    IF code = <<>>
    THEN [namespace |-> namespace, figure |-> figure,
          stdout |-> stdout, stderr |-> stderr, error |-> <<>>, kind |-> ""]
    ELSE LET st == Head(code) IN
         CASE st.op = "assign" ->
                exec(Tail(code), [namespace EXCEPT ![st.name] = st.value], figure,
                     stdout, stderr)
           [] st.op = "print_name" ->
                IF namespace[st.name] = Unbound
                THEN [namespace |-> namespace, figure |-> figure,
                      stdout |-> stdout, stderr |-> stderr,
                      error |-> <<"NameError: name '", st.name, "' is not defined">>,
                      kind |-> "Exception"]
                ELSE exec(Tail(code), namespace, figure,
                          stdout \o <<namespace[st.name], "\n">>, stderr)
           [] st.op = "print" ->
                exec(Tail(code), namespace, figure, stdout \o <<st.value, "\n">>, stderr)
           [] st.op = "print_stderr" ->
                exec(Tail(code), namespace, figure, stdout, stderr \o <<st.value, "\n">>)
           [] st.op = "plot" ->
                exec(Tail(code), namespace, [open |-> TRUE, drawn |-> TRUE], stdout, stderr)
           [] st.op = "exit" ->
                [namespace |-> namespace, figure |-> figure,
                 stdout |-> stdout, stderr |-> stderr, error |-> <<st.value>>,
                 kind |-> "BaseException"]
           [] OTHER ->
                [namespace |-> namespace, figure |-> figure,
                 stdout |-> stdout, stderr |-> stderr, error |-> <<st.value>>,
                 kind |-> "Exception"]

\* exec(code, globals()): the namespace is the module's, shared by all requests
exec_namespace == sandbox_globals

\* traceback.format_exc()
format_exc(error) == <<"Traceback (most recent call last):\n">> \o error \o <<"\n">>

\* except Exception: the handler catches what derives from Exception only
caught_by_handler(kind) == kind = "Exception"

\* the server threads and the targets a stream can point to
Workers == 1..MaxWorkers

Targets == 0..MaxWorkers

IdleWorker ==
    [pc |-> "idle", request |-> [fields |-> {}, code |-> <<>>], rest |-> <<>>,
     old_stdout |-> 0, old_stderr |-> 0, error |-> <<>>, kind |-> "",
     image_b64 |-> "null", wrote_stdout |-> <<>>, wrote_stderr |-> <<>>,
     response |-> <<>>]

SandboxInit ==
    /\ sandbox_globals = [n \in Names |-> Unbound]
    /\ sandbox_figure = [open |-> FALSE, drawn |-> FALSE]
    /\ served = <<>>
    /\ sys_stdout = 0
    /\ sys_stderr = 0
    /\ stdout_buffers = [g \in Targets |-> <<>>]
    /\ stderr_buffers = [g \in Targets |-> <<>>]
    /\ workers = [w \in Workers |-> IdleWorker]

\* jsonify(...) with its status; status "none": the exception left the view
\* function and the connection was closed without a response
Response(request, status, error, stdout, stderr, image_b64) ==
    [request |-> request, status |-> status, error |-> error,
     stdout |-> stdout, stderr |-> stderr, image_b64 |-> image_b64]

\* the request body carries no code
no_code(request) == request.fields = {} \/ "code" \notin request.fields

\* POST /execute, one request at a time: reject a body without code; otherwise
\* run the code, capture its output, save an open figure, respond
execute_code(request) ==
    /\ Len(served) < MaxRequests
    /\ IF no_code(request)
       THEN /\ served' = Append(served,
                                Response(request, "400", "No code provided", <<>>, <<>>, "null"))
            /\ UNCHANGED <<sandbox_globals, sandbox_figure>>
       ELSE LET run == exec(request.code, exec_namespace, sandbox_figure, <<>>, <<>>)
                raised == run.error # <<>>
                \* the figure is saved and cleared only when exec returned normally
                saves == ~raised /\ run.figure.open
                image_b64 == IF saves
                             THEN (IF run.figure.drawn THEN "png" ELSE "blank png")
                             ELSE "null"
                stderr_val == IF raised THEN run.stderr \o format_exc(run.error)
                              ELSE run.stderr
            IN  /\ sandbox_globals' = run.namespace
                /\ sandbox_figure' = IF saves THEN [open |-> TRUE, drawn |-> FALSE]
                                     ELSE run.figure
                /\ served' = Append(served,
                                    IF raised /\ ~caught_by_handler(run.kind)
                                    THEN Response(request, "none", "", <<>>, <<>>, "null")
                                    ELSE Response(request, "200", "", run.stdout, stderr_val,
                                                  image_b64))
    /\ UNCHANGED <<loop_vars, fn_vars, server_vars, service_vars>>

SandboxStart ==
    /\ LoopIdle
    /\ SandboxInit
    /\ ServicesIdle
    /\ FnIdle

SandboxNext == \E request \in Requests : execute_code(request)

SandboxSpec == SandboxStart /\ [][SandboxNext]_vars

(***************************************************************************)
(* execute_code served by several threads (app.run starts the threaded     *)
(* development server): the same handler, one action per access to state   *)
(* the threads share (sys.stdout, sys.stderr, globals(), pyplot).          *)
(***************************************************************************)
\* lines 21-36: read the body, create the buffers, enter redirect_stdout
execute_code_redirect_stdout(w, request) ==
    /\ workers[w].pc = "idle"
    /\ IF no_code(request)
       THEN LET response == Response(request, "400", "No code provided", <<>>, <<>>, "null")
            IN  /\ workers' = [workers EXCEPT ![w].pc = "done", ![w].request = request,
                                              ![w].response = <<response>>]
                /\ served' = Append(served, response)
                /\ UNCHANGED sys_stdout
       ELSE /\ workers' = [workers EXCEPT ![w].pc = "redirect_stderr",
                                          ![w].request = request,
                                          ![w].rest = request.code,
                                          ![w].old_stdout = sys_stdout]
            /\ sys_stdout' = w
            /\ UNCHANGED served
    /\ UNCHANGED <<sandbox_globals, sandbox_figure, sys_stderr, stdout_buffers, stderr_buffers>>
    /\ UNCHANGED <<loop_vars, fn_vars, service_vars>>

\* line 37: enter redirect_stderr
execute_code_redirect_stderr(w) ==
    /\ workers[w].pc = "redirect_stderr"
    /\ workers' = [workers EXCEPT ![w].pc = "exec", ![w].old_stderr = sys_stderr]
    /\ sys_stderr' = w
    /\ UNCHANGED <<sandbox_globals, sandbox_figure, served, sys_stdout,
                   stdout_buffers, stderr_buffers>>
    /\ UNCHANGED <<loop_vars, fn_vars, service_vars>>

\* line 40: the next statement of the submitted code; what it prints goes to
\* whatever sys.stdout and sys.stderr point to at that moment
execute_code_exec(w) ==
    /\ workers[w].pc = "exec"
    /\ LET todo == workers[w].rest
           run == exec(IF todo = <<>> THEN <<>> ELSE <<Head(todo)>>,
                       exec_namespace, sandbox_figure, <<>>, <<>>)
           rest == IF todo = <<>> THEN <<>> ELSE Tail(todo)
           ends == run.error # <<>> \/ rest = <<>>
       IN  /\ sandbox_globals' = run.namespace
           /\ sandbox_figure' = run.figure
           /\ stdout_buffers' = [stdout_buffers EXCEPT ![sys_stdout] = @ \o run.stdout]
           /\ stderr_buffers' = [stderr_buffers EXCEPT ![sys_stderr] = @ \o run.stderr]
           /\ workers' = [workers EXCEPT
                             ![w].pc = IF ends THEN "restore_stderr" ELSE "exec",
                             ![w].rest = IF ends THEN <<>> ELSE rest,
                             ![w].error = run.error,
                             ![w].kind = run.kind,
                             ![w].wrote_stdout = @ \o run.stdout,
                             ![w].wrote_stderr = @ \o run.stderr]
    /\ UNCHANGED <<served, sys_stdout, sys_stderr>>
    /\ UNCHANGED <<loop_vars, fn_vars, service_vars>>

\* leaving redirect_stderr: sys.stderr is set back to what it was on entry
execute_code_restore_stderr(w) ==
    /\ workers[w].pc = "restore_stderr"
    /\ sys_stderr' = workers[w].old_stderr
    /\ workers' = [workers EXCEPT ![w].pc = "restore_stdout"]
    /\ UNCHANGED <<sandbox_globals, sandbox_figure, served, sys_stdout,
                   stdout_buffers, stderr_buffers>>
    /\ UNCHANGED <<loop_vars, fn_vars, service_vars>>

\* leaving redirect_stdout: sys.stdout is set back to what it was on entry;
\* then the except clause (lines 50-52), or the exception leaves the handler
execute_code_restore_stdout(w) ==
    /\ workers[w].pc = "restore_stdout"
    /\ sys_stdout' = workers[w].old_stdout
    /\ LET raised == workers[w].error # <<>>
           escapes == raised /\ ~caught_by_handler(workers[w].kind)
           response == Response(workers[w].request, "none", "", <<>>, <<>>, "null")
       IN  /\ workers' = [workers EXCEPT
                             ![w].pc = IF escapes THEN "done"
                                       ELSE IF raised THEN "respond" ELSE "savefig",
                             ![w].response = IF escapes THEN <<response>> ELSE @]
           /\ stderr_buffers' = IF raised /\ ~escapes
                                THEN [stderr_buffers EXCEPT
                                         ![w] = @ \o format_exc(workers[w].error)]
                                ELSE stderr_buffers
           /\ served' = IF escapes THEN Append(served, response) ELSE served
    /\ UNCHANGED <<sandbox_globals, sandbox_figure, sys_stderr, stdout_buffers>>
    /\ UNCHANGED <<loop_vars, fn_vars, service_vars>>

\* lines 44-48: save and clear the figure pyplot holds open
execute_code_savefig(w) ==
    /\ workers[w].pc = "savefig"
    /\ workers' = [workers EXCEPT
                      ![w].pc = "respond",
                      ![w].image_b64 = IF sandbox_figure.open
                                       THEN (IF sandbox_figure.drawn THEN "png"
                                             ELSE "blank png")
                                       ELSE "null"]
    /\ sandbox_figure' = IF sandbox_figure.open THEN [open |-> TRUE, drawn |-> FALSE]
                         ELSE sandbox_figure
    /\ UNCHANGED <<sandbox_globals, served, sys_stdout, sys_stderr,
                   stdout_buffers, stderr_buffers>>
    /\ UNCHANGED <<loop_vars, fn_vars, service_vars>>

\* lines 55-70: read the buffers and respond
execute_code_respond(w) ==
    /\ workers[w].pc = "respond"
    /\ LET response == Response(workers[w].request, "200", "", stdout_buffers[w],
                                stderr_buffers[w], workers[w].image_b64)
       IN  /\ workers' = [workers EXCEPT ![w].pc = "done", ![w].response = <<response>>]
           /\ served' = Append(served, response)
    /\ UNCHANGED <<sandbox_globals, sandbox_figure, sys_stdout, sys_stderr,
                   stdout_buffers, stderr_buffers>>
    /\ UNCHANGED <<loop_vars, fn_vars, service_vars>>

ThreadedNext ==
    \E w \in Workers :
        \/ \E request \in Requests : execute_code_redirect_stdout(w, request)
        \/ execute_code_redirect_stderr(w)
        \/ execute_code_exec(w)
        \/ execute_code_restore_stderr(w)
        \/ execute_code_restore_stdout(w)
        \/ execute_code_savefig(w)
        \/ execute_code_respond(w)

ThreadedSandboxSpec == SandboxStart /\ [][ThreadedNext]_vars

(***************************************************************************)
(* The orchestrator, in either form                                        *)
(***************************************************************************)
Init ==
    /\ impl \in {"cog", "cli"}
    /\ LoopInit
    /\ SandboxInit
    /\ ServicesIdle
    /\ FnIdle

Next ==
    \E t \in Turns :
        \/ on_message(t)
        \/ on_message_policy_returned(t)
        \/ on_message_code_generated(t)
        \/ on_message_executed(t)
        \/ on_message_summarized(t)
        \/ run_agentic_loop(t)
        \/ run_agentic_loop_policy_returned(t)
        \/ run_agentic_loop_code_generated(t)
        \/ run_agentic_loop_executed(t)
        \/ run_agentic_loop_summarized(t)

Spec == Init /\ [][Next]_vars

(***************************************************************************)
(* The session with its !clearhistory command (src/cogs/llm_cog.py)        *)
(***************************************************************************)
\* what the confirmation view ends with: confirmed, cancelled, or timed out
ConfirmationValues == {"True", "False", "None"}

\* !clearhistory: ask for confirmation, wait for the view, and re-initialize
\* the history only when the user confirmed.  The command runs as a task of
\* its own, at any point between the awaits of the turns in progress.
\* mutant: only a cancelled confirmation keeps the dialogue
resets_unless_cancelled(value) == value # "False"

\* `if view.value is True`
resets(value) == value = "True"

clear_llm_history(value) ==
    /\ impl = "cog"
    /\ conversation_history' = IF resets(value) THEN initialize_history
                               ELSE conversation_history
    /\ UNCHANGED <<impl, db, pc, assistant_response, generated_code, execution_result,
                   loop_i, thinking_message, calls, final_message, exc, faults,
                   fn_vars, sandbox_vars, service_vars>>

\* !history: reads the dialogue and sends it
history_command ==
    /\ impl = "cog"
    /\ UNCHANGED vars

\* the session is explored with one collaborator exception fewer than the turns alone
SessionFaults == MaxFaults - 1

SessionNext ==
    \/ Next /\ faults' <= SessionFaults
    \/ \E value \in ConfirmationValues : clear_llm_history(value)
    \/ history_command

SessionSpec == Init /\ [][SessionNext]_vars

(***************************************************************************)
(* Vocabulary of the properties                                            *)
(***************************************************************************)
\* the turn has ended, with or without an exception leaving the orchestrator
Resolved(t) == pc[t] \in {"done", "escaped"}

\* the turn has appended its user turn and is not resolved yet
InProgress(t) == pc[t] \in {"policy", "gen", "exec", "synth"}

\* the marker occurs in the text
HasMarker(text) ==
    \E k \in 1..(Len(text) - 9) :
        /\ text[k] = "[" /\ text[k + 9] = "]"
        /\ SubSeq(text, k + 1, k + 8) = <<"T", "O", "O", "L", "_", "U", "S", "E">>

\* the turn made a code-generation, sandbox or summarizing call
EnteredToolPath(t) ==
    Len(calls[t].gen) + Len(calls[t].exec) + Len(calls[t].synth) > 0

\* the turn reached the summarize step
ReachedSummarize(t) == Len(calls[t].synth) > 0

\* every execution of the turn so far returned a non-empty stderr
AllFailed(t) == \A k \in 1..Len(calls[t].results) : calls[t].results[k].stderr # <<>>

\* the last outcome the sandbox client returned in the turn
LastOutcome(t) == calls[t].results[Len(calls[t].results)]

\* the text occurs in the content of some message of the list
Mentions(messages, text) ==
    \E k \in 1..Len(messages) :
        \E a \in 1..(Len(messages[k].content) - Len(text) + 1) :
            SubSeq(messages[k].content, a, a + Len(text) - 1) = text

\* the labelled stdout and stderr of outcome, as each orchestrator writes them
Labelled(outcome) ==
    IF impl = "cog"
    THEN <<"[TOOL_RESULT]\nSTDOUT:\n">> \o outcome.stdout \o <<"\nSTDERR:\n">>
            \o outcome.stderr
    ELSE <<"\n        [TOOL_RESULT]\n        STDOUT:\n        ">> \o outcome.stdout
            \o <<"\n        STDERR:\n        ">> \o outcome.stderr \o <<"\n        ">>

\* the one summarizing call of the turn was given this outcome and no other
\* outcome of the turn: in the last message of its list (the only message in
\* the cog, the tool turn of this turn in the CLI)
HandedToSynthesizer(t, outcome) ==
    /\ Len(calls[t].synth) = 1
    /\ LET messages == calls[t].synth[1]
           last == <<messages[Len(messages)]>>
       IN  /\ Mentions(last, Labelled(outcome))
           /\ \A k \in 1..Len(calls[t].results) :
                 Mentions(last, Labelled(calls[t].results[k]))
                    => calls[t].results[k] = outcome

\* the sequence a is an initial part of the sequence b
IsPrefix(a, b) == Len(a) <= Len(b) /\ SubSeq(b, 1, Len(a)) = a

\* the turns of the dialogue appended on behalf of turn t, in order
TurnEntries(history, t) == SelectSeq(history, LAMBDA e : e.turn = t)

\* the message of the turn is the error message of the except clause
ShowsError(t) ==
    /\ thinking_message[t].sent
    /\ thinking_message[t].content # <<>>
    /\ thinking_message[t].content[1]
          = "Sorry, a critical error occurred in the agentic loop: "

(***************************************************************************)
(* Properties of the correction loop                                       *)
(***************************************************************************)
\* C1: in a turn whose executions all return a non-empty stderr, the
\* controller makes exactly 2 code-generation calls and 2 executions, then
\* stops: it reaches the summarize step without an exception of its own, and
\* hands the outcome of the 2nd execution to the Result Synthesizer.
C1_CorrectionBound ==
    \A t \in Turns :
        /\ Len(calls[t].gen) <= 2 /\ Len(calls[t].exec) <= 2
        /\ (AllFailed(t) /\ Len(calls[t].results) = 2 /\ exc[t] = <<>>)
              => ReachedSummarize(t)
        /\ (AllFailed(t) /\ ReachedSummarize(t))
              => /\ Len(calls[t].gen) = 2
                 /\ Len(calls[t].exec) = 2
                 /\ Len(calls[t].results) = 2
                 /\ execution_result[t] = calls[t].results[2]
                 /\ HandedToSynthesizer(t, calls[t].results[2])

\* a turn that failed twice and was summarized and answered
C1_Witness ==
    \E t \in Turns :
        /\ pc[t] = "done" /\ exc[t] = <<>>
        /\ Len(calls[t].results) = 2 /\ AllFailed(t)
        /\ Len(calls[t].gen) = 2
        /\ thinking_message[t] = Shown(final_message[t])

\* C2: after an execution the controller stops at once if stderr is empty (no
\* further generation or execution in the turn: k executions, k generations);
\* after a failure with fewer than 2 executions made it regenerates and
\* executes again before it may summarize; it never executes more than twice.
C2_CorrectionStateMachine ==
    \A t \in Turns :
        LET results == calls[t].results IN
        /\ \A k \in 1..Len(results) :
              results[k].stderr = <<>>
                 => k = Len(results) /\ Len(calls[t].exec) = k /\ Len(calls[t].gen) = k
        /\ (Len(results) = 1 /\ results[1].stderr # <<>>)
              => /\ ~ReachedSummarize(t)
                 /\ exc[t] = <<>> => (Len(calls[t].gen) = 2 /\ pc[t] \in {"gen", "exec"})
        /\ Len(calls[t].exec) <= 2
        /\ Len(results) <= Len(calls[t].exec)
        /\ Len(calls[t].exec) <= Len(calls[t].gen)

\* a turn whose first execution succeeded, answered after 1 generation and 1 execution
C2_Witness ==
    \E t \in Turns :
        /\ pc[t] = "done" /\ exc[t] = <<>>
        /\ Len(calls[t].results) = 1 /\ calls[t].results[1].stderr = <<>>
        /\ Len(calls[t].gen) = 1 /\ Len(calls[t].exec) = 1

\* C3: when the first execution fails and the second succeeds, the turn makes
\* exactly 2 generation calls and 2 execution calls, and the outcome handed to
\* the Result Synthesizer is the second one.
C3_FailThenSucceed ==
    \A t \in Turns :
        LET results == calls[t].results IN
        (/\ Len(results) >= 1 /\ results[1].stderr # <<>>
         /\ results[Len(results)].stderr = <<>>)
           => /\ Len(results) = 2
              /\ Len(calls[t].gen) = 2
              /\ Len(calls[t].exec) = 2
              /\ calls[t].exec[2] = generated_code[t]
              /\ exc[t] = <<>> => /\ ReachedSummarize(t)
                                  /\ execution_result[t] = results[2]
                                  /\ HandedToSynthesizer(t, results[2])

\* a turn that failed once, succeeded on the second execution and was answered
C3_Witness ==
    \E t \in Turns :
        /\ pc[t] = "done" /\ exc[t] = <<>>
        /\ Len(calls[t].results) = 2
        /\ calls[t].results[1].stderr # <<>> /\ calls[t].results[2].stderr = <<>>
        /\ thinking_message[t] = Shown(final_message[t])

\* C4: a turn that reaches the summarize step does so with exactly one
\* outcome, the result of the last execution performed in the turn, on
\* success and on exhaustion alike: execution_result is assigned, the one
\* summarizing call and the one tool turn of the dialogue carry that outcome.
C4_OneOutcomeToSynthesizer ==
    \A t \in Turns :
        ReachedSummarize(t)
           => /\ Len(calls[t].results) >= 1
              /\ Len(calls[t].results) = Len(calls[t].exec)
              /\ execution_result[t] # Unassigned
              /\ execution_result[t] = LastOutcome(t)
              /\ HandedToSynthesizer(t, LastOutcome(t))
              /\ LET tools == SelectSeq(TurnEntries(conversation_history, t),
                                        LAMBDA e : e.role = "tool")
                 IN  Len(tools) = 1 /\ tools[1].content = Labelled(LastOutcome(t))

\* two turns at the summarize step, one after a success, one after exhaustion
C4_Witness ==
    \E t, u \in Turns :
        /\ ReachedSummarize(t) /\ LastOutcome(t).stderr = <<>>
        /\ ReachedSummarize(u) /\ LastOutcome(u).stderr # <<>>
        /\ Len(calls[u].results) = 2

(***************************************************************************)
(* Properties of the orchestrator                                          *)
(***************************************************************************)
\* the roles of the turns that turn t has in the dialogue
RolesOf(history, t) ==
    LET entries == TurnEntries(history, t) IN
    [k \in 1..Len(entries) |-> entries[k].role]

\* the dialogue holds all of the appends of turn t, or none of them
Complete(history, t) ==
    RolesOf(history, t) \in { <<>>,
                              <<"user", "assistant">>,
                              <<"user", "assistant", "tool", "assistant">> }

\* C5: if a stage of a turn raises, the dialogue that the policy call of a
\* later turn sees contains all of the failed turn's appends or none of them.
\* (u's policy call was issued with what t left behind: t is resolved and has
\* appended nothing since.)
C5_DialogueAtomicity ==
    \A t, u \in Turns :
        (/\ t # u
         /\ Resolved(t) /\ exc[t] # <<>>
         /\ Len(calls[u].policy) = 1
         /\ TurnEntries(calls[u].policy[1], t) = TurnEntries(conversation_history, t))
           => Complete(calls[u].policy[1], t)

\* C6: no turn starts (appends its user turn and issues its policy call) while
\* another turn of the session is between its user-turn append and its resolution.
C6_TurnSerialization ==
    \A t, u \in Turns : (t # u /\ InProgress(t)) => ~InProgress(u)

\* the positions of the dialogue that hold turns appended on behalf of turn t
PositionsOf(history, t) == {k \in 1..Len(history) : history[k].turn = t}

\* C30: the turns appended on behalf of one user turn are contiguous in the
\* dialogue and in order: user, then one assistant turn, or the assistant turn
\* with the directive, the tool turn and the final assistant turn.
C30_TurnContiguity ==
    \A t \in Turns :
        /\ \A a, b \in PositionsOf(conversation_history, t) :
              \A k \in a..b : k \in PositionsOf(conversation_history, t)
        /\ IsPrefix(RolesOf(conversation_history, t),
                    <<"user", "assistant", "tool", "assistant">>)

\* C7: no exception leaves the orchestrator, and a resolved turn shows one
\* final message: the error message if a stage raised, otherwise the plain
\* answer or the synthesized answer.
C7_TurnResolvesToOneMessage ==
    \A t \in Turns :
        /\ pc[t] # "escaped"
        /\ pc[t] = "done"
              => /\ thinking_message[t].sent
                 /\ exc[t] # <<>> => ShowsError(t)
                 /\ exc[t] = <<>>
                       => thinking_message[t].content
                             \in {assistant_response[t], final_message[t]}

\* C8: a turn enters the tool path iff the policy response contains the
\* marker; without the marker the response itself is appended as the
\* assistant turn and shown as the final answer, with no generation,
\* execution or summarizing call.
C8_ToolPathDecision ==
    \A t \in Turns :
        LET decided == pc[t] \in {"gen", "exec", "synth"} \/ (pc[t] = "done" /\ exc[t] = <<>>)
        IN
        /\ EnteredToolPath(t) => HasMarker(assistant_response[t])
        /\ (decided /\ HasMarker(assistant_response[t])) => EnteredToolPath(t)
        /\ (decided /\ ~HasMarker(assistant_response[t]))
              => /\ pc[t] = "done"
                 /\ thinking_message[t] = [sent |-> TRUE, content |-> assistant_response[t]]
                 /\ TurnEntries(conversation_history, t)
                       = << [role |-> "user", content |-> Question(t), turn |-> t],
                            [role |-> "assistant", content |-> assistant_response[t],
                             turn |-> t] >>
                 /\ calls[t].gen = <<>> /\ calls[t].exec = <<>> /\ calls[t].synth = <<>>

\* one turn answered directly without the marker, another in the tool path
\* after a response with the marker
C8_Witness ==
    \E t, u \in Turns :
        /\ pc[t] = "done" /\ exc[t] = <<>> /\ ~HasMarker(assistant_response[t])
        /\ thinking_message[t].content = assistant_response[t]
        /\ HasMarker(assistant_response[u]) /\ Len(calls[u].exec) > 0

(***************************************************************************)
(* Properties of the sandbox client and of the prompts                     *)
(***************************************************************************)
\* C16: when the sandbox call times out, cannot connect or answers with an
\* error status, the client returns an outcome with empty stdout, a non-empty
\* stderr and no image instead of raising; the loop treats it as a failed
\* execution: it counts as an attempt, and while budget remains a correction
\* call carrying that stderr follows.
C16_ClientFailureMapping ==
    \A t \in Turns :
        \A k \in 1..Len(calls[t].replies) :
            calls[t].replies[k] # "200"
               => LET outcome == calls[t].results[k] IN
                  /\ outcome.stdout = <<>>
                  /\ outcome.stderr # <<>>
                  /\ outcome.image_b64 = "null"
                  /\ exc[t] = <<>>
                        => IF k < max_retries
                           THEN /\ Len(calls[t].gen) >= k + 1
                                /\ Mentions(calls[t].gen[k + 1], outcome.stderr)
                           ELSE /\ k = max_retries
                                /\ HandedToSynthesizer(t, outcome)

\* a turn whose first sandbox call got an error status and whose second timed
\* out, answered from the synthetic outcome
C16_Witness ==
    \E t \in Turns :
        /\ pc[t] = "done" /\ exc[t] = <<>>
        /\ calls[t].replies = <<"500", "Timeout">>
        /\ Len(calls[t].gen) = 2
        /\ thinking_message[t] = Shown(final_message[t])

\* C17: every correction call carries, verbatim, the source executed in the
\* attempt just before it and the stderr that attempt returned, and neither
\* the source nor the stderr of another attempt.
C17_CorrectionPromptContent ==
    \A t \in Turns :
        \A k \in 1..(Len(calls[t].gen) - 1) :
            LET prompt == calls[t].gen[k + 1] IN
            /\ Len(prompt) = 1
            /\ k <= Len(calls[t].results)
            /\ Mentions(prompt, calls[t].exec[k])
            /\ Mentions(prompt, calls[t].results[k].stderr)
            /\ calls[t].results[k].stderr # <<>>
            /\ \A j \in 1..Len(calls[t].exec) :
                  calls[t].exec[j] # calls[t].exec[k]
                     => ~Mentions(prompt, calls[t].exec[j])
            /\ \A j \in 1..Len(calls[t].results) :
                  (/\ calls[t].results[j].stderr # calls[t].results[k].stderr
                   /\ calls[t].results[j].stderr # <<>>)
                     => ~Mentions(prompt, calls[t].results[j].stderr)

\* a turn that was corrected once, where the corrected source and the second
\* stderr differ from the first ones
C17_Witness ==
    \E t \in Turns :
        /\ pc[t] = "done" /\ exc[t] = <<>>
        /\ Len(calls[t].gen) = 2 /\ Len(calls[t].exec) = 2 /\ Len(calls[t].results) = 2
        /\ calls[t].exec[1] # calls[t].exec[2]
        /\ calls[t].results[2].stderr \notin {<<>>, calls[t].results[1].stderr}

\* C18: a completed tool-path turn has appended, after its user turn and in
\* this order, the assistant turn with the tool directive, a tool turn with
\* the labelled stdout and stderr of the terminal outcome, and the final
\* synthesized assistant turn, and nothing else.
C18_ToolPathAppends ==
    \A t \in Turns :
        (pc[t] = "done" /\ exc[t] = <<>> /\ HasMarker(assistant_response[t]))
           => LET entries == TurnEntries(conversation_history, t) IN
              /\ Len(entries) = 4
              /\ entries[1].role = "user" /\ entries[1].content = Question(t)
              /\ entries[2].role = "assistant"
              /\ entries[2].content = assistant_response[t]
              /\ entries[3].role = "tool"
              /\ entries[3].content = Labelled(LastOutcome(t))
              /\ entries[4].role = "assistant"
              /\ entries[4].content = final_message[t]

\* a completed tool-path turn whose terminal outcome is a failure, after
\* another turn has completed
C18_Witness ==
    \E t, u \in Turns :
        /\ t # u /\ pc[u] = "done"
        /\ pc[t] = "done" /\ exc[t] = <<>> /\ HasMarker(assistant_response[t])
        /\ Len(calls[t].results) = 2 /\ LastOutcome(t).stderr # <<>>
        /\ final_message[t] # <<>>

\* C19: the summarizing call receives one fresh user message built from the
\* question of the turn and the labelled stdout and stderr of the terminal
\* outcome, never the accumulated dialogue.
C19_SynthesizerInput ==
    \A t \in Turns :
        Len(calls[t].synth) >= 1
           => LET request == calls[t].synth[1] IN
              /\ Len(request) = 1
              /\ request[1].role = "user"
              /\ Mentions(request, Question(t))
              /\ Mentions(request, Labelled(LastOutcome(t)))
              /\ ~Mentions(request, SystemTurn.content)

(***************************************************************************)
(* Properties of the persistent dialogue                                   *)
(***************************************************************************)
\* C20: in every state of a session the persistent dialogue is non-empty, its
\* first element is the system turn, and no other element has role system.
C20_SystemTurnFirst ==
    /\ conversation_history # <<>>
    /\ conversation_history[1].role = "system"
    /\ \A k \in 2..Len(conversation_history) : conversation_history[k].role # "system"

\* the history was cleared while a tool-path turn was in progress, and the
\* turn went on appending to the fresh history
C20_Witness ==
    \E t \in Turns :
        /\ pc[t] = "done" /\ HasMarker(assistant_response[t])
        /\ Len(conversation_history) > 1
        /\ conversation_history[2].role # "user"

\* C21: while a turn is between its user-turn append and its resolution the
\* persistent dialogue only grows by appends: every step taken meanwhile,
\* a confirmed clearhistory included, leaves the old dialogue a prefix of the
\* new one.
C21_AppendOnlyWithinTurn ==
    [][(\E t \in Turns : InProgress(t))
          => IsPrefix(conversation_history, conversation_history')]_vars

\* C22: an empty response of the conversation model makes the turn fail: the
\* policy call is not repeated, no empty assistant turn is appended to the
\* dialogue, and the user sees the error message.
C22_EmptyPolicyResponse ==
    \A t \in Turns :
        /\ Len(calls[t].policy) <= 1
        /\ \A k \in 1..Len(conversation_history) :
              ~(/\ conversation_history[k].turn = t
                /\ conversation_history[k].role = "assistant"
                /\ conversation_history[k].content = <<>>)
        /\ (pc[t] = "done" /\ assistant_response[t] = <<>>) => ShowsError(t)

(***************************************************************************)
(* The orchestrator under the scheduling of its calls: every awaited call  *)
(* of a started turn returns or raises, and the task is resumed            *)
(***************************************************************************)
\* the steps that resume turn t after its message was accepted
TurnStep(t) ==
    \/ on_message_policy_returned(t)
    \/ on_message_code_generated(t)
    \/ on_message_executed(t)
    \/ on_message_summarized(t)
    \/ run_agentic_loop_policy_returned(t)
    \/ run_agentic_loop_code_generated(t)
    \/ run_agentic_loop_executed(t)
    \/ run_agentic_loop_summarized(t)

FairNext == Next /\ faults' <= SessionFaults

FairSpec == Init /\ [][FairNext]_vars /\ \A t \in Turns : WF_vars(TurnStep(t))

\* the most calls a turn may issue: policy, code generation, sandbox, synthesis
CallBounds(t) ==
    /\ Len(calls[t].policy) <= 1
    /\ Len(calls[t].gen) <= max_retries
    /\ Len(calls[t].exec) <= max_retries
    /\ Len(calls[t].synth) <= 1

\* C23: every started turn eventually resolves, and it never issues more than
\* one policy call, two code-generation calls, two sandbox executions and one
\* synthesis call.
C23_BoundedWorkAndTermination ==
    /\ [](\A t \in Turns : CallBounds(t))
    /\ \A t \in Turns : InProgress(t) ~> Resolved(t)

\* a turn resolved after using every call it is allowed
C23_Witness ==
    \E t \in Turns :
        /\ Resolved(t)
        /\ Len(calls[t].policy) = 1
        /\ Len(calls[t].gen) = max_retries
        /\ Len(calls[t].exec) = max_retries
        /\ Len(calls[t].synth) = 1

\* C26: the dialogue is reset only by a confirmed clearhistory, which leaves
\* exactly the system turn; a cancelled or timed-out clearhistory and the
\* history command leave it unchanged, and the steps of a turn only extend it.
C26_ResetOnlyByConfirmedClear ==
    [][/\ \A value \in ConfirmationValues :
              clear_llm_history(value)
                  => IF value = "True" THEN conversation_history' = <<SystemTurn>>
                     ELSE UNCHANGED conversation_history
       /\ history_command => UNCHANGED conversation_history
       /\ pc' # pc => IsPrefix(conversation_history, conversation_history')]_vars

\* a turn was completed and a confirmed clearhistory removed its entries
C26_Witness ==
    \E t \in Turns :
        /\ pc[t] = "done" /\ exc[t] = <<>>
        /\ conversation_history = <<SystemTurn>>

(***************************************************************************)
(* Properties of the marker parser                                         *)
(***************************************************************************)
\* the positions at which the marker token starts
Occurrences(text) ==
    {k \in 1..(Len(text) - 9) :
        /\ text[k] = "[" /\ text[k + 9] = "]"
        /\ SubSeq(text, k + 1, k + 8) = <<"T", "O", "O", "L", "_", "U", "S", "E">>}

\* the text after the token that starts at k
AfterToken(text, k) == SubSeq(text, k + 10, Len(text))

\* out is s without its leading and trailing blanks, otherwise verbatim
IsTrimOf(out, s) ==
    \E a \in 0..Len(s) : \E n \in 0..(Len(s) - a) :
        /\ out = SubSeq(s, a + 1, a + n)
        /\ \A k \in 1..a : s[k] \in {" ", "\n"}
        /\ \A k \in (a + n + 1)..Len(s) : s[k] \in {" ", "\n"}
        /\ n > 0 => s[a + 1] \notin {" ", "\n"} /\ s[a + n] \notin {" ", "\n"}

\* C9: for every assistant text containing the marker token, the instruction
\* forwarded to the Code Generator is everything after the first occurrence of
\* the token (later occurrences and the text between them included), trimmed
\* of surrounding whitespace and otherwise verbatim.
C9_MarkerParsing ==
    (fn_pc = "applied" /\ Occurrences(fn_arg) # {})
        => LET first == CHOOSE k \in Occurrences(fn_arg) :
                            \A j \in Occurrences(fn_arg) : k <= j
           IN  IsTrimOf(fn_res, AfterToken(fn_arg, first))


(***************************************************************************)
(* Properties of the code-generation calls                                 *)
(***************************************************************************)
\* C28: every code-generation call is sent exactly one user message; the first
\* one carries the instruction followed by the tool directive (the trimmed text
\* after a marker of the assistant text), and none carries the system prompt,
\* a user question or a synthesized answer.
C28_CodeGeneratorIndependence ==
    \A t \in Turns :
        \A k \in 1..Len(calls[t].gen) :
            LET prompt == calls[t].gen[k] IN
            /\ Len(prompt) = 1
            /\ prompt[1].role = "user"
            /\ ~Mentions(prompt, SystemTurn.content)
            /\ \A u \in Turns : ~Mentions(prompt, Question(u))
            /\ \A text \in FinalTexts : ~Mentions(prompt, text)
            /\ k = 1 =>
                  \E o \in Occurrences(assistant_response[t]) :
                      IsTrimOf(Tail(prompt[1].content),
                               AfterToken(assistant_response[t], o))

\* a turn issued both code-generation calls after another turn was completed
C28_Witness ==
    \E t, u \in Turns :
        /\ t # u
        /\ pc[u] = "done" /\ exc[u] = <<>> /\ Len(calls[u].synth) = 1
        /\ Len(calls[t].gen) = 2
        /\ \E k \in 1..Len(conversation_history) : conversation_history[k].turn = u

C31_MessageAdmission ==
    ( \/ fn_arg.author_bot
      \/ ~fn_arg.is_dm
      \/ fn_arg.author_id # authorized_user_id
      \/ (fn_arg.content # <<>> /\ fn_arg.content[1] = command_prefix) )
        => /\ conversation_history = <<SystemTurn>>
           /\ db = <<>>
           /\ \A t \in Turns : calls[t] = NoCalls /\ thinking_message[t] = NotSent
           /\ pc[1] \in {"idle", "ignored"}

\* the listener has returned on a command of the authorized user
C31_Witness ==
    /\ pc[1] = "ignored"
    /\ ~fn_arg.author_bot /\ fn_arg.is_dm /\ fn_arg.author_id = authorized_user_id
    /\ fn_arg.content[1] = command_prefix

(***************************************************************************)
(* Properties of the success classification                                *)
(***************************************************************************)
\* C27: what follows an execution depends on whether stderr is empty and on
\* the attempt index only: empty stderr ends the loop whatever stdout and the
\* artifact are, and non-empty stderr is a failure (a correction while an
\* attempt is left, the summary after the last one) whatever they are.
C27_SuccessByStderrAlone ==
    fn_pc = "decided"
        => fn_res = IF fn_arg.result.stderr = <<>> THEN "summarize"
                    ELSE IF fn_arg.i + 1 < max_retries THEN "correct"
                    ELSE "summarize"

\* decided: a success without output or artifact, or a failure with both
C27_Witness ==
    /\ fn_pc = "decided"
    /\ \/ /\ fn_arg.result.stderr = <<>> /\ fn_arg.result.stdout = <<>>
          /\ fn_arg.result.image_b64 = "null" /\ fn_res = "summarize"
       \/ /\ fn_arg.result.stderr # <<>> /\ fn_arg.result.stdout # <<>>
          /\ fn_arg.result.image_b64 # "null" /\ fn_arg.i = 0 /\ fn_res = "correct"

(***************************************************************************)
(* Properties of the code extractor                                        *)
(***************************************************************************)
\* the positions of the fences of the text
FencePositions(text) == {k \in 1..Len(text) : text[k] = Fence}

\* fences pair up from the left: the odd ones that have a successor open a block
Openings(text) ==
    {k \in FencePositions(text) :
        /\ Cardinality({j \in FencePositions(text) : j <= k}) % 2 = 1
        /\ \E j \in FencePositions(text) : j > k}

\* the fence that closes the block opened at k
Closing(text, k) ==
    CHOOSE j \in FencePositions(text) :
        j > k /\ \A i \in FencePositions(text) : i > k => j <= i

\* the end of the opening line of the block opened at k
OpeningLineEnd(text, k) ==
    LET N == {j \in (k + 1)..(Closing(text, k) - 1) : text[j] = "\n"} \cup {Closing(text, k)}
    IN  CHOOSE j \in N : \A i \in N : j <= i

\* the tag of the block opened at k: what follows the fence on its line
Tag(text, k) == SubSeq(text, k + 1, OpeningLineEnd(text, k) - 1)

\* the body of the block opened at k: the lines between its opening line and
\* the closing fence
Body(text, k) == SubSeq(text, OpeningLineEnd(text, k) + 1, Closing(text, k) - 1)

\* the source the precedence (a), (b), (c) selects
SelectedSource(text) ==
    LET tagged == {k \in Openings(text) : Tag(text, k) = <<"python">>}
        first(S) == CHOOSE k \in S : \A j \in S : k <= j
    IN  IF tagged # {} THEN strip(Body(text, first(tagged)))
        ELSE IF Openings(text) # {} THEN strip(Body(text, first(Openings(text))))
        ELSE strip(text)

\* C24: the extracted source is the trimmed body of the first fenced block
\* tagged python if there is one, otherwise the trimmed body of the first
\* fenced block of any kind, otherwise the whole text trimmed.
C24_ExtractorPrecedence ==
    fn_pc = "extracted" => fn_res = SelectedSource(fn_arg)

(***************************************************************************)
(* Properties of the sandbox                                               *)
(***************************************************************************)
\* the names a code reads before it has bound them itself
RECURSIVE FreeReads(_, _)
FreeReads(code, bound) ==
    IF code = <<>> THEN {}
    ELSE LET st == Head(code) IN
         CASE st.op = "assign" -> FreeReads(Tail(code), bound \cup {st.name})
           [] st.op = "print_name" ->
                (IF st.name \in bound THEN {} ELSE {st.name}) \cup FreeReads(Tail(code), bound)
           [] st.op \in {"raise", "exit"} -> {}
           [] OTHER -> FreeReads(Tail(code), bound)

\* the text occurs in a sequence of tokens
Within(tokens, text) == \E k \in 1..Len(tokens) : tokens[k] = text

\* C10: a name bound by the code of one request is not visible to the code of
\* a later request: a code that reads a name it has not bound itself ends with
\* a NameError trace in its stderr, whatever earlier requests bound.
C10_NamespaceIsolation ==
    \A k \in 1..Len(served) :
        FreeReads(served[k].request.code, {}) # {}
           => Within(served[k].stderr, "NameError: name '")

\* the position of the first raise or exit statement of a code that reaches
\* it whatever the namespace holds (0 if there is none)
FirstRaise(code) ==
    LET hits == {i \in 1..Len(code) :
                    /\ code[i].op \in {"raise", "exit"}
                    /\ \A j \in 1..(i - 1) : code[j].op \notin {"raise", "exit", "print_name"}}
    IN  IF hits = {} THEN 0 ELSE CHOOSE i \in hits : TRUE

\* what the print statements among the first n statements write to stdout
RECURSIVE Printed(_, _)
Printed(code, n) ==
    IF n = 0 THEN <<>>
    ELSE Printed(code, n - 1)
            \o (IF code[n].op = "print" THEN <<code[n].value, "\n">> ELSE <<>>)

\* the code cannot raise, whatever the namespace holds
NeverRaises(code) ==
    /\ \A i \in 1..Len(code) : code[i].op \notin {"raise", "exit"}
    /\ FreeReads(code, {}) = {}

\* C12: a code whose execution raises (interpreter exit included) gets a 200
\* response whose stderr holds the exception trace and whose stdout holds
\* exactly what was written before the raise.
C12_RaiseIsReported ==
    \A k \in 1..Len(served) :
        LET code == served[k].request.code
            i == FirstRaise(code)
        IN  i # 0 => /\ served[k].status = "200"
                     /\ Within(served[k].stderr, code[i].value)
                     /\ served[k].stdout = Printed(code, i - 1)

\* C25: a request without a code field gets a 400 response and changes nothing
\* in the service; a request with a code field (an empty one included) gets a
\* 200 response.
C25_RequestValidation ==
    /\ [](\A k \in 1..Len(served) :
              served[k].status = IF no_code(served[k].request) THEN "400" ELSE "200")
    /\ [][(Len(served') > Len(served) /\ no_code(served'[Len(served')].request))
             => UNCHANGED <<sandbox_globals, sandbox_figure, sys_stdout, sys_stderr,
                            stdout_buffers, stderr_buffers>>]_vars

\* C13: a code that executes without raising gets a response with empty
\* stderr, whatever it writes while running.
C13_CleanRunHasEmptyStderr ==
    \A k \in 1..Len(served) :
        (served[k].status = "200" /\ NeverRaises(served[k].request.code))
            => served[k].stderr = <<>>

\* C14: a request whose code renders nothing returns image_b64 = null, also
\* when an earlier request rendered something.
C14_ArtifactNonLeak ==
    \A k \in 1..Len(served) :
        (\A i \in 1..Len(served[k].request.code) : served[k].request.code[i].op # "plot")
            => served[k].image_b64 = "null"

\* C32: a request whose code raises returns image_b64 = null, also when the
\* code drew a figure before raising; a request whose code finishes without
\* raising returns an image exactly when a figure is open at the end of the
\* execution.
C32_ArtifactOnFailure ==
    [][(Len(served') > Len(served) /\ ~no_code(served'[Len(served')].request))
          => LET response == served'[Len(served')]
                 run == exec(response.request.code, sandbox_globals, sandbox_figure,
                             <<>>, <<>>)
             IN  IF run.error # <<>>
                 THEN response.status = "200" /\ response.image_b64 = "null"
                 ELSE /\ response.status = "200"
                      /\ response.image_b64 # "null" <=> run.figure.open]_vars

\* C15: between requests no rendering state survives: no figure is open and
\* no drawn content is left.
C15_GraphicsStateReset ==
    ~sandbox_figure.open /\ ~sandbox_figure.drawn

\* C11: under concurrent serving every response carries in stdout and stderr
\* exactly what its own code wrote (plus its own exception trace), and once
\* all requests are answered the process-wide streams are back on their
\* original targets.
C11_CaptureIsolation ==
    /\ \A w \in Workers :
          (workers[w].pc = "done" /\ workers[w].response[1].status = "200")
             => /\ workers[w].response[1].stdout = workers[w].wrote_stdout
                /\ workers[w].response[1].stderr =
                      workers[w].wrote_stderr
                         \o (IF workers[w].error = <<>> THEN <<>>
                             ELSE format_exc(workers[w].error))
    /\ (\A w \in Workers : workers[w].pc = "done") => (sys_stdout = 0 /\ sys_stderr = 0)

(***************************************************************************)
(* Harness for the marker parser: every text built from at most MaxPieces  *)
(* pieces is parsed once.                                                  *)
(***************************************************************************)
MarkerPieces == {Marker, <<" ">>, <<"x">>, <<"[">>, <<"y", " ", "z">>}

RECURSIVE TextsOf(_, _)
TextsOf(pieces, n) ==
    IF n = 0 THEN {<<>>}
    ELSE LET shorter == TextsOf(pieces, n - 1)
         IN  shorter \cup {t \o p : t \in shorter, p \in pieces}

MarkerTexts == TextsOf(MarkerPieces, MaxPieces)

MarkerInit ==
    /\ fn_pc = "ready"
    /\ fn_arg \in MarkerTexts
    /\ fn_res = <<>>
    /\ LoopIdle
    /\ SandboxInit
    /\ ServicesIdle

ApplyCodePrompt ==
    /\ fn_pc = "ready"
    /\ fn_pc' = "applied"
    /\ fn_res' = code_prompt(fn_arg)
    /\ UNCHANGED fn_arg
    /\ UNCHANGED <<loop_vars, sandbox_vars, service_vars>>

MarkerNext == ApplyCodePrompt

MarkerSpec == MarkerInit /\ [][MarkerNext]_vars

(***************************************************************************)
(* The code extractor applied to response texts                            *)
(***************************************************************************)
MaxBlocks == 3

ResponsePieces ==
    { <<"Here is the code: ">>,
      <<"\n">>,
      <<Fence, "python", "\n", "print(1)", "\n", Fence>>,
      <<Fence, "python", "\n", "print(3)", "\n", Fence>>,
      <<Fence, "\n", "print(2)", "\n", Fence>>,
      <<Fence, "bash", "\n", "pip install x", "\n", Fence>> }

ResponseTexts == TextsOf(ResponsePieces, MaxBlocks)

ExtractInit ==
    /\ fn_pc = "ready"
    /\ fn_arg \in ResponseTexts
    /\ fn_res = <<>>
    /\ LoopIdle
    /\ SandboxInit
    /\ ServicesIdle

ApplyExtract ==
    /\ fn_pc = "ready"
    /\ fn_pc' = "extracted"
    /\ fn_res' = extract_python_code(fn_arg)
    /\ UNCHANGED fn_arg
    /\ UNCHANGED <<loop_vars, sandbox_vars, service_vars>>

ExtractNext == ApplyExtract

ExtractSpec == ExtractInit /\ [][ExtractNext]_vars

(***************************************************************************)
(* The decision after an execution applied to execution results            *)
(***************************************************************************)
\* the execution results the sandbox client may return
ExecutionResults ==
    [stdout : {<<>>, <<"4\n">>, <<"before\n">>, <<"partial\n">>},
     stderr : {<<>>, <<"NameError: undefined_name">>, <<"warning\n">>,
               <<"API Error: Could not connect to the sandbox.\n">>},
     image_b64 : {"null", "png"}]

DecisionInit ==
    /\ fn_pc = "ready"
    /\ fn_arg \in [result : ExecutionResults, i : 0..(max_retries - 1)]
    /\ fn_res = <<>>
    /\ LoopIdle
    /\ SandboxInit
    /\ ServicesIdle

ApplyAfterExecution ==
    /\ fn_pc = "ready"
    /\ fn_pc' = "decided"
    /\ fn_res' = after_execution(fn_arg.result, fn_arg.i)
    /\ UNCHANGED fn_arg
    /\ UNCHANGED <<loop_vars, sandbox_vars, service_vars>>

DecisionNext == ApplyAfterExecution

DecisionSpec == DecisionInit /\ [][DecisionNext]_vars

(***************************************************************************)
(* The listener on one delivered message (src/cogs/llm_cog.py)             *)
(***************************************************************************)
\* the messages Discord may deliver to the listener
DeliveredMessages ==
    [author_bot : BOOLEAN, is_dm : BOOLEAN,
     author_id : {authorized_user_id, "stranger", "bot"},
     content : {<<>>, Question(1), <<command_prefix, "history">>,
                <<"what is ", command_prefix>>}]

AdmissionInit ==
    /\ impl = "cog"
    /\ LoopInit
    /\ SandboxInit
    /\ ServicesIdle
    /\ fn_pc = "off"
    /\ fn_arg \in DeliveredMessages
    /\ fn_res = <<>>

AdmissionNext ==
    \/ on_message_event(1, fn_arg)
    \/ on_message_policy_returned(1)
    \/ on_message_code_generated(1)
    \/ on_message_executed(1)
    \/ on_message_summarized(1)

AdmissionSpec == AdmissionInit /\ [][AdmissionNext]_vars

(***************************************************************************)
(* Agent.process_task (src/utils/task_agent.py) called by the !t command   *)
(* (src/cogs/llm_cog.py): the model is asked for a JSON object, which is   *)
(* validated; an invalid answer is sent back once with a correction.       *)
(***************************************************************************)
MaxCommands == 2

\* max_retries = 2 of process_task
process_task_max_retries == 2

\* what the model may answer: JSON objects as token lists, and a text that is
\* not JSON
TaskResponses ==
    { <<"{", "description", ":", "Finish the report", ",", "priority", ":", "HIGH", ",",
        "due", ":", "tomorrow", "}">>,
      <<"{", "description", ":", "Call Bob", ",", "priority", ":", "MEDIUM", ",",
        "due", ":", "whenever", "}">>,
      <<"{", "description", ":", "  ", ",", "priority", ":", "LOW", ",",
        "due", ":", "today", "}">>,
      <<"{", "description", ":", "Finish the report", ",", "priority", ":", "HIGH", "}">>,
      <<"Sure, here is the task">> }

\* json.loads on the token list: the object as a function from keys to values;
\* parsed is FALSE when the text is not an object
parse_json(content) ==
    LET n == Len(content)
        wellformed ==
            /\ n >= 5 /\ (n - 1) % 4 = 0
            /\ content[1] = "{" /\ content[n] = "}"
            /\ \A k \in 1..((n - 1) \div 4) :
                  /\ content[4 * k - 1] = ":"
                  /\ k < (n - 1) \div 4 => content[4 * k + 1] = ","
        keys == {content[4 * k - 2] : k \in 1..((n - 1) \div 4)}
    IN  IF ~wellformed THEN [parsed |-> FALSE, object |-> <<>>]
        ELSE [parsed |-> TRUE,
              object |-> [key \in keys |->
                            LET K == {k \in 1..((n - 1) \div 4) : content[4 * k - 2] = key}
                            IN  content[4 * (CHOOSE k \in K : \A j \in K : j <= k)]]]

\* Task.model_validate_json: the text of the ValidationError, <<>> if the
\* object has the three fields and a description that is not blank
model_validate_json(content) ==
    LET json == parse_json(content)
        missing == {"description", "priority", "due"} \ DOMAIN json.object
    IN  IF ~json.parsed THEN <<"Invalid JSON">>
        ELSE IF missing # {} THEN <<"Field required">>
        ELSE IF json.object["description"] \in {"", " ", "  "}
             THEN <<"Task description cannot be empty.">>
        ELSE <<>>

\* Task.due_date: the parsed date, today's date when the phrase is not a date
due_date(due) == IF due \in {"tomorrow", "today"} THEN <<"date of ", due>> ELSE <<"date of ", "today">>

\* the dictionary process_task returns for a valid answer
task_dict(content) ==
    LET object == parse_json(content).object IN
    [description |-> object["description"], priority |-> object["priority"],
     due_date |-> due_date(object["due"])]

NoTask == [description |-> "", priority |-> "", due_date |-> <<>>]

task_system_prompt == <<"You are a task management assistant. ...">>

task_correction_prompt(e) ==
    <<"Your previous JSON was invalid. Please correct it based on the user's original prompt.\n\nERRORS:\n">>
        \o e \o <<"\n\nPlease provide only the corrected JSON object.">>

\* mutant: the invalid answer itself is not sent back
extend_messages_correction_only(messages, response_content, e) ==
    Append(messages, [role |-> "user", content |-> task_correction_prompt(e)])

\* lines 78-79: the two appends after an invalid answer
extend_messages(messages, response_content, e) ==
    messages \o << [role |-> "assistant", content |-> response_content],
                   [role |-> "user", content |-> task_correction_prompt(e)] >>

\* the prompts given to !t
TaskPrompts == {<<"finish the report by tomorrow">>, <<"call Bob">>}

TaskAgentReady ==
    [pc |-> "ready", prompt |-> <<>>, messages |-> <<>>, i |-> 0, calls |-> <<>>,
     responses |-> <<>>, result |-> NoTask, error |-> <<>>, commands |-> 0]

TaskInit ==
    /\ LoopIdle
    /\ SandboxInit
    /\ FnIdle
    /\ task_agent = TaskAgentReady
    /\ tasks_table = <<>>
    /\ edit_reply = ""
    /\ scheduler = [pc |-> "off"]

\* !t: the command calls process_task, which builds its messages and issues
\* the first chat call
t_command(message) ==
    /\ task_agent.pc \in {"ready", "stored", "failed"}
    /\ task_agent.commands < MaxCommands
    /\ LET messages == << [role |-> "system", content |-> task_system_prompt],
                          [role |-> "user", content |-> message] >>
       IN  task_agent' = [TaskAgentReady EXCEPT
                             !.pc = "chat", !.prompt = message, !.messages = messages,
                             !.calls = <<messages>>,
                             !.commands = task_agent.commands + 1]
    /\ UNCHANGED <<tasks_table, edit_reply, scheduler>>
    /\ UNCHANGED <<loop_vars, fn_vars, sandbox_vars>>

\* the chat call raises: nothing in process_task catches it, the except clause
\* of the command reports it, and nothing is stored
process_task_chat_raised ==
    /\ task_agent.pc = "chat"
    /\ task_agent' = [task_agent EXCEPT !.pc = "failed", !.error = <<"ConnectionError">>]
    /\ UNCHANGED <<tasks_table, edit_reply, scheduler>>
    /\ UNCHANGED <<loop_vars, fn_vars, sandbox_vars>>

\* the chat call returns: the answer is validated; a valid one is returned to
\* the command, which stores the task; an invalid one is sent back with a
\* correction if an attempt is left, otherwise its ValidationError is raised
process_task_chat_returned(response_content) ==
    /\ task_agent.pc = "chat"
    /\ LET e == model_validate_json(response_content)
           answered == [task_agent EXCEPT !.responses = Append(@, response_content)]
           messages == extend_messages(task_agent.messages, response_content, e)
       IN  IF e = <<>>
           THEN /\ task_agent' = [answered EXCEPT !.pc = "stored",
                                                  !.result = task_dict(response_content)]
                /\ tasks_table' =
                      Append(tasks_table,
                             [description |-> task_dict(response_content).description,
                              priority |-> task_dict(response_content).priority,
                              due_date |-> task_dict(response_content).due_date,
                              status |-> "pending",
                              notes |-> <<"Original prompt: ">> \o task_agent.prompt])
           ELSE IF task_agent.i < process_task_max_retries - 1
           THEN /\ task_agent' = [answered EXCEPT !.messages = messages,
                                                  !.i = @ + 1,
                                                  !.calls = Append(@, messages)]
                /\ UNCHANGED tasks_table
           ELSE /\ task_agent' = [answered EXCEPT !.pc = "failed", !.error = e]
                /\ UNCHANGED tasks_table
    /\ UNCHANGED <<edit_reply, scheduler>>
    /\ UNCHANGED <<loop_vars, fn_vars, sandbox_vars>>

TaskNext ==
    \/ \E message \in TaskPrompts : t_command(message)
    \/ process_task_chat_raised
    \/ \E response_content \in TaskResponses : process_task_chat_returned(response_content)

TaskSpec == TaskInit /\ [][TaskNext]_vars

\* C33: process_task calls the model at most twice; the first valid answer is
\* returned and ends the loop; after a first invalid answer the second call's
\* messages are the first call's followed by exactly the invalid answer and
\* one correction message; if the second answer is invalid too the validation
\* error is raised and no task is returned or stored.
C33_TaskExtractionRetry ==
    LET a == task_agent
        invalid(k) == model_validate_json(a.responses[k]) # <<>>
    IN  a.pc # "off" =>
        /\ Len(a.calls) <= 2 /\ Len(a.responses) <= Len(a.calls)
        /\ \A k \in 1..(Len(a.responses) - 1) : invalid(k)
        /\ Len(a.calls) = 2
              => /\ Len(a.responses) >= 1 /\ invalid(1)
                 /\ Len(a.calls[2]) = Len(a.calls[1]) + 2
                 /\ SubSeq(a.calls[2], 1, Len(a.calls[1])) = a.calls[1]
                 /\ a.calls[2][Len(a.calls[1]) + 1]
                       = [role |-> "assistant", content |-> a.responses[1]]
                 /\ a.calls[2][Len(a.calls[1]) + 2].role = "user"
        /\ a.pc = "stored"
              => /\ Len(a.responses) = Len(a.calls)
                 /\ ~invalid(Len(a.responses))
                 /\ a.result.description = parse_json(a.responses[Len(a.responses)]).object["description"]
                 /\ Len(tasks_table) > 0
                 /\ tasks_table[Len(tasks_table)].description = a.result.description
        /\ (a.pc = "failed" /\ a.error # <<"ConnectionError">>)
              => /\ Len(a.calls) = 2 /\ Len(a.responses) = 2
                 /\ invalid(1) /\ invalid(2)
                 /\ a.error = model_validate_json(a.responses[2])
                 /\ a.result = NoTask
        /\ a.pc = "chat" => (a.result = NoTask /\ Len(a.responses) = Len(a.calls) - 1)
        /\ Len(tasks_table) <= a.commands

\* the second answer was valid after an invalid first one
C33_Witness ==
    /\ task_agent.pc = "stored"
    /\ Len(task_agent.calls) = 2
    /\ model_validate_json(task_agent.responses[1]) # <<>>

(***************************************************************************)
(* The !edit command (LLMCog.edit_task, src/cogs/llm_cog.py) on the tasks  *)
(* table (DatabaseManager.update_task, src/utils/database_manager.py)      *)
(***************************************************************************)
MaxPairs == 2

valid_fields ==
    {"description", "priority", "due_date", "status", "notes", "estimated_time",
     "actual_time", "date_completed"}

\* the columns of the tasks table declared NOT NULL, among those one can edit
NotNullColumns == {"description", "priority", "due_date", "status"}

\* Python's None as a column value
None == <<"<None>">>

\* str.lower() on the tokens used here
lower(token) ==
    CASE token = "Priority" -> "priority"
      [] token = "None" -> "none"
      [] OTHER -> token

\* the field:value pairs a user may type, as token lists
EditPairs ==
    { <<"status", ":", "done">>,
      <<" ", "Priority", " ", ":", " ", "HIGH">>,
      <<"colour", ":", "red">>,
      <<"status done">>,
      <<"notes", ":", "None">>,
      <<"description", ":", "null">>,
      <<"notes", ":", "at 10", ":", "30">> }

\* the texts given as `updates`: pairs joined by commas, or nothing
RECURSIVE UpdatesOf(_)
UpdatesOf(n) ==
    IF n = 0 THEN {<<>>}
    ELSE LET shorter == UpdatesOf(n - 1)
         IN  shorter \cup {IF u = <<>> THEN p ELSE u \o <<",">> \o p :
                              u \in shorter, p \in EditPairs}

EditUpdates == UpdatesOf(MaxPairs)

\* a row of the tasks table
TaskRow ==
    [field \in valid_fields |->
        CASE field = "description" -> <<"Finish the report">>
          [] field = "priority" -> <<"MEDIUM">>
          [] field = "due_date" -> <<"2025-08-15">>
          [] field = "status" -> <<"pending">>
          [] OTHER -> None]

\* lines 488-499: the key and the value of a pair that has a colon
pair_key(pair) == LET k == strip(SubSeq(pair, 1, find(pair, <<":">>) - 1))
                  IN  IF Len(k) = 1 THEN lower(k[1]) ELSE ""

pair_value(pair) ==
    LET value == strip(SubSeq(pair, find(pair, <<":">>) + 1, Len(pair)))
    IN  IF value = <<>> \/ (Len(value) = 1 /\ lower(value[1]) \in {"none", "null"})
        THEN None ELSE value

\* lines 485-502: the loop over the pairs; it ends at the first pair without a
\* colon ("format") or with a field that cannot be edited ("field")
RECURSIVE parse_updates(_, _)
parse_updates(pairs, update_dict) ==
    IF pairs = <<>> THEN [status |-> "ok", update_dict |-> update_dict]
    ELSE LET pair == strip(Head(pairs)) IN
         IF ~contains(pair, <<":">>)
         THEN [status |-> "format", update_dict |-> update_dict]
         ELSE IF pair_key(pair) \notin valid_fields
         THEN [status |-> "field", update_dict |-> update_dict]
         ELSE parse_updates(Tail(pairs),
                            [k \in DOMAIN update_dict \cup {pair_key(pair)} |->
                                IF k = pair_key(pair) THEN pair_value(pair)
                                ELSE update_dict[k]])

\* mutant: what was parsed before the bad pair is written
updates_to_write_partial(parsed) == parsed.update_dict

\* lines 500-509: update_task is reached only after the whole loop
updates_to_write(parsed) ==
    IF parsed.status = "ok" THEN parsed.update_dict ELSE <<>>

\* DatabaseManager.update_task: one UPDATE statement sets every column of
\* updates; it fails as a whole when a NOT NULL column would become NULL
update_task(table, task_id, updates) ==
    IF \E k \in DOMAIN updates : k \in NotNullColumns /\ updates[k] = None
    THEN [raised |-> TRUE, table |-> table]
    ELSE [raised |-> FALSE,
          table |-> [table EXCEPT ![task_id] =
                        [field \in valid_fields |->
                            IF field \in DOMAIN updates THEN updates[field] ELSE @[field]]]]

\* the task ids given to the command: those of the two rows, and one of no row
TaskIds == 1..3

EditInit ==
    /\ LoopIdle
    /\ SandboxInit
    /\ FnIdle
    /\ task_agent = [pc |-> "off"]
    /\ tasks_table = <<TaskRow, TaskRow>>
    /\ edit_reply = [text |-> "", commands |-> 0]
    /\ scheduler = [pc |-> "off"]

\* !edit <task_id> <updates>
edit_task(task_id, updates) ==
    /\ edit_reply.commands < MaxCommands
    /\ LET parsed == parse_updates(split(updates, <<",">>), <<>>)
           writes == updates_to_write(parsed)
           written == update_task(tasks_table, task_id, writes)
           reply(text) == edit_reply' = [text |-> text, commands |-> edit_reply.commands + 1]
       IN  IF task_id \notin 1..Len(tasks_table)
           THEN reply("No task found") /\ UNCHANGED tasks_table
           ELSE IF DOMAIN writes = {}
           THEN /\ reply(CASE parsed.status = "format" -> "Could not parse your updates"
                           [] parsed.status = "field" -> "Invalid field"
                           [] OTHER -> "No valid updates were provided")
                /\ UNCHANGED tasks_table
           ELSE /\ tasks_table' = written.table
                /\ reply(IF written.raised THEN "An unexpected error occurred"
                         ELSE "Task Updated")
    /\ UNCHANGED <<task_agent, scheduler>>
    /\ UNCHANGED <<loop_vars, fn_vars, sandbox_vars>>

EditNext ==
    \E task_id \in TaskIds, updates \in EditUpdates : edit_task(task_id, updates)

EditSpec == EditInit /\ [][EditNext]_vars

\* the pairs of an updates text: what is between its commas
PairsOf(updates) == split(updates, <<",">>)

\* the pair has a colon and names, before it, a field that can be edited
WellFormedPair(pair) ==
    /\ contains(pair, <<":">>)
    /\ \E field \in valid_fields :
          LET key == strip(SubSeq(pair, 1, find(pair, <<":">>) - 1))
          IN  Len(key) = 1 /\ lower(key[1]) = field

\* the fields the pairs of an updates text name
FieldsOf(updates) ==
    {field \in valid_fields :
        \E k \in 1..Len(PairsOf(updates)) :
            /\ WellFormedPair(PairsOf(updates)[k])
            /\ pair_key(strip(PairsOf(updates)[k])) = field}

\* C34: an edit whose task id does not exist, or one of whose pairs lacks a
\* colon or names a field that cannot be edited, or that gives no pair, leaves
\* the tasks table as it is; when the table changes, only the row of the task
\* changes, and it gets every field the pairs name at once.
C34_EditAllOrNothing ==
    [][\A task_id \in TaskIds, updates \in EditUpdates :
          edit_task(task_id, updates)
              => /\ ( \/ task_id \notin 1..Len(tasks_table)
                      \/ updates = <<>>
                      \/ \E k \in 1..Len(PairsOf(updates)) :
                            ~WellFormedPair(PairsOf(updates)[k]) )
                       => UNCHANGED tasks_table
                 /\ tasks_table' # tasks_table
                       => /\ \A other \in 1..Len(tasks_table) :
                                other # task_id => tasks_table'[other] = tasks_table[other]
                          /\ \A field \in valid_fields :
                                IF field \in FieldsOf(updates)
                                THEN \E k \in 1..Len(PairsOf(updates)) :
                                        /\ pair_key(strip(PairsOf(updates)[k])) = field
                                        /\ tasks_table'[task_id][field]
                                              = pair_value(strip(PairsOf(updates)[k]))
                                ELSE tasks_table'[task_id][field]
                                        = tasks_table[task_id][field]]_vars

\* an edit with two valid pairs has changed two fields of the task
C34_Witness ==
    /\ edit_reply.text = "Task Updated"
    /\ tasks_table[1]["status"] = <<"done">>
    /\ tasks_table[1]["priority"] = <<"HIGH">>
    /\ edit_reply.commands = 1

(***************************************************************************)
(* Scheduler (src/utils/scheduler.py) and JN66Bot.on_ready (src/jn-66.py): *)
(* cogs add jobs, every on_ready calls start_all, and the loop of a        *)
(* started job runs job_wrapper once per cycle.                            *)
(***************************************************************************)
MaxJobs == 2

MaxReady == 2

MaxCycles == 2

\* the target types a Job may be created with
TargetTypes == {"dm", "channel", "other"}

\* Job.__init__ followed by add_job: the loop is created, not started
NewJob(target_type, ready) ==
    [target_type |-> target_type,
     task |-> [running |-> FALSE, starts |-> 0, loops |-> 0],
     added_at |-> ready,
     cycles |-> <<>>]

\* Loop.is_running()
is_running(task) == task.running

\* mutant: start_all starts every job
should_start_always(task) == TRUE

\* `if not job.task.is_running()`
should_start(task) == ~is_running(task)

\* Loop.start(): a loop that is running refuses to start again and raises
\* RuntimeError
start(task) ==
    IF is_running(task) THEN [raised |-> TRUE, task |-> task]
    ELSE [raised |-> FALSE,
          task |-> [running |-> TRUE, starts |-> task.starts + 1, loops |-> task.loops + 1]]

\* the for loop of start_all over jobs k, k+1, ...: it ends at the first
\* start() that raises
RECURSIVE start_from(_, _)
start_from(jobs, k) ==
    IF k > Len(jobs) THEN [raised |-> FALSE, jobs |-> jobs]
    ELSE IF ~should_start(jobs[k].task) THEN start_from(jobs, k + 1)
    ELSE LET started == start(jobs[k].task) IN
         IF started.raised THEN [raised |-> TRUE, jobs |-> jobs]
         ELSE start_from([jobs EXCEPT ![k].task = started.task], k + 1)

SchedulerInit ==
    /\ LoopIdle
    /\ SandboxInit
    /\ FnIdle
    /\ task_agent = [pc |-> "off"]
    /\ tasks_table = <<>>
    /\ edit_reply = ""
    /\ scheduler = [pc |-> "on", jobs |-> <<>>, ready |-> 0, raised |-> FALSE, cycles |-> 0]

\* Scheduler.add_job, called when a cog is loaded
add_job(target_type) ==
    /\ scheduler.pc = "on"
    /\ Len(scheduler.jobs) < MaxJobs
    /\ scheduler' = [scheduler EXCEPT
                        !.jobs = Append(@, NewJob(target_type, scheduler.ready))]
    /\ UNCHANGED <<task_agent, tasks_table, edit_reply>>
    /\ UNCHANGED <<loop_vars, fn_vars, sandbox_vars>>

\* JN66Bot.on_ready: start_all
on_ready ==
    /\ scheduler.pc = "on"
    /\ scheduler.ready < MaxReady
    /\ LET started == start_from(scheduler.jobs, 1)
       IN  scheduler' = [scheduler EXCEPT !.jobs = started.jobs,
                                          !.ready = @ + 1,
                                          !.raised = @ \/ started.raised]
    /\ UNCHANGED <<task_agent, tasks_table, edit_reply>>
    /\ UNCHANGED <<loop_vars, fn_vars, sandbox_vars>>

\* what the lookup of the target gives: fetch_user returns the user or raises,
\* get_channel returns the channel or None, another type looks nothing up
Lookups(target_type) ==
    CASE target_type = "dm" -> {"found", "raised"}
      [] target_type = "channel" -> {"found", "none"}
      [] OTHER -> {"none"}

\* how the callback ends: scheduled_tasks_task sends the task list, or the
\* error message of its own except clause, and either send may raise
CallbackOutcomes == {"returned", "raised"}

\* mutant: only the errors of the target lookup are caught
caught_by_wrapper_lookup_only(lookup, callback) == callback # "raised"

\* `except Exception` around the lookup and the callback
caught_by_wrapper(lookup, callback) == TRUE

\* one cycle of the loop of job j: job_wrapper
job_wrapper(j) ==
    /\ scheduler.pc = "on"
    /\ j \in 1..Len(scheduler.jobs)
    /\ is_running(scheduler.jobs[j].task)
    /\ scheduler.cycles < MaxCycles
    /\ \E lookup \in Lookups(scheduler.jobs[j].target_type), callback \in CallbackOutcomes :
          LET called == lookup = "found"
              raised == lookup = "raised" \/ (called /\ callback = "raised")
              escaped == raised /\ ~caught_by_wrapper(lookup, callback)
              cycle == [lookup |-> lookup,
                        called |-> called,
                        callback |-> IF called THEN callback ELSE "not called",
                        logged |-> (lookup = "none") \/ (raised /\ ~escaped),
                        escaped |-> escaped]
          IN  /\ ~called => callback = "returned"
              /\ scheduler' =
                    [scheduler EXCEPT
                        !.cycles = @ + 1,
                        !.jobs[j].cycles = Append(@, cycle),
                        !.jobs[j].task =
                            IF escaped
                            THEN [@ EXCEPT !.running = FALSE, !.loops = @ - 1]
                            ELSE @]
    /\ UNCHANGED <<task_agent, tasks_table, edit_reply>>
    /\ UNCHANGED <<loop_vars, fn_vars, sandbox_vars>>

SchedulerNext ==
    \/ \E target_type \in TargetTypes : add_job(target_type)
    \/ on_ready
    \/ \E j \in 1..MaxJobs : job_wrapper(j)

SchedulerSpec == SchedulerInit /\ [][SchedulerNext]_vars

\* C35: however often start_all is called, each job has at most one running
\* loop, start() is never called on a loop that is running (so each loop is
\* started once), and every job added before the first start_all is running
\* after it.
C35_StartIdempotence ==
    scheduler.pc = "on" =>
        /\ ~scheduler.raised
        /\ \A j \in 1..Len(scheduler.jobs) :
              LET job == scheduler.jobs[j] IN
              /\ job.task.loops <= 1
              /\ job.task.starts <= 1
              /\ (job.added_at = 0 /\ scheduler.ready >= 1)
                    => (job.task.starts = 1 /\ is_running(job.task))

\* start_all ran twice over two jobs that the first call had started
C35_Witness ==
    /\ scheduler.pc = "on"
    /\ scheduler.ready = 2
    /\ Len(scheduler.jobs) = 2
    /\ \A j \in 1..2 : scheduler.jobs[j].added_at = 0 /\ is_running(scheduler.jobs[j].task)

\* C36: in each cycle the callback is invoked only if the target was resolved;
\* a missing target and an exception of the lookup or of the callback are
\* logged and do not leave the wrapper, so the loop is still running after
\* the cycle.
C36_JobRobustness ==
    scheduler.pc = "on" =>
        \A j \in 1..Len(scheduler.jobs) :
            LET job == scheduler.jobs[j] IN
            /\ \A k \in 1..Len(job.cycles) :
                  LET cycle == job.cycles[k] IN
                  /\ cycle.called <=> cycle.lookup = "found"
                  /\ (cycle.lookup \in {"none", "raised"} \/ cycle.callback = "raised")
                        => cycle.logged
                  /\ ~cycle.escaped
            /\ job.cycles # <<>> => is_running(job.task)

\* a job fired again after a cycle whose callback raised
C36_Witness ==
    /\ scheduler.pc = "on"
    /\ \E j \in 1..Len(scheduler.jobs) :
          /\ Len(scheduler.jobs[j].cycles) = 2
          /\ scheduler.jobs[j].cycles[1].callback = "raised"
          /\ scheduler.jobs[j].cycles[2].called

====
